---- MODULE Spec2Model ----
(***************************************************************************)
(* Model of the real-time audio routing and session core of Helixion:      *)
(*   backend/src/ai/caller.py          AiCaller, AiMessageQueue            *)
(*   backend/src/audio/audio_router.py CallRouter, BrowserRouter           *)
(*   backend/src/routes/phone.py       call_stream                         *)
(* One call is modelled.  The uplink task (receive_from_human_call), the   *)
(* downlink task (send_to_human) and the context-manager exit are          *)
(* cooperatively scheduled: an action is the code a task runs between two  *)
(* suspension points.                                                      *)
(***************************************************************************)
EXTENDS Integers, Sequences, FiniteSets, TLC

(***************************************************************************)
(* Bounds of the model.                                                    *)
(***************************************************************************)
MaxDown == 2        \* model events handled by the downlink of a routed call
MaxIter == 3        \* model events handled by the iterator driven on its own
MaxUp == 3          \* frames, other than echoed marks, handled by the uplink
MaxNow == 600       \* the wall clock (ms) saturates here
ListenerQueueBound == 3     \* a capacity the listener queue might have

(***************************************************************************)
(* Program constants.                                                      *)
(***************************************************************************)
PrefixPaddingMs == 300      \* TurnDetection.prefix_padding_ms
KickoffBufferMs == 500      \* start_speaking_buffer_ms passed by call_stream

\* Python's None, for string-valued and for integer-valued fields.
None == "None"
NoneInt == -1
\* An attribute that __init__ never assigned (reading it raises).
Unassigned == -2

Min(a, b) == IF a <= b THEN a ELSE b

RECURSIVE SumSeq(_)
SumSeq(s) == IF s = <<>> THEN 0 ELSE Head(s) + SumSeq(Tail(s))

(***************************************************************************)
(* Inputs.  A frame is modelled by the number of bytes its base64 payload  *)
(* decodes to; that is all the code reads of it.                           *)
(***************************************************************************)
UserItems == <<"u1", "u2">>
AssistantItems == {"a1", "a2"}
HumanFrameBytes == {160, 960}
AudioStartMs == {320, 330}
Transcripts == {"hello"}
ClockSteps == {50, 250}

\* time.time() * 1000: any instant not before the last one read.
ClockReads(n) == {Min(n + d, MaxNow) : d \in ClockSteps}

Ev(type, item, start, bytes, transcript, name, arg) ==
    [type |-> type, item_id |-> item, audio_start_ms |-> start, bytes |-> bytes,
     transcript |-> transcript, name |-> name, arg |-> arg]

NoEvent == Ev("none", None, 0, 0, "", None, None)

VARIABLES
    \* ---- configuration of the call
    transport,              \* "telephony" (CallRouter) or "browser" (BrowserRouter)
    call_type,              \* PhoneCallType of a telephony call
    audio_format,           \* AiCaller._audio_format
    queue_attached,         \* AiCaller._message_queue is not None
    hang_up_sound_cached,   \* get_sound_base64("hang_up_sound_24k") is not None
    knowledge_bases,        \* len(tool_configuration.get("knowledge_bases", []))
    \* ---- query_documents
    documents,              \* the (name, token_count) list of query_documents
    document_groups,        \* the groups handed to _model_query_documents
    query_pc,               \* "idle", "fetched" (_get_documents returned), "grouped"
    \* ---- the session log
    log_writes,             \* the _log_message tasks created: in _log_tasks or not, done or not
    log_file,               \* the entries of the log file, in the order written
    log_pc,                 \* close() and the log: "idle", "gather", "read", "uploaded"
    uploaded_log,           \* the entries of the file that was zipped and uploaded
    \* ---- the call record
    phone_call,             \* the committed row: end_reason and call_data
    hang_up_pc,             \* POST /hang-up: where the request is, and what it read
    update_pc,              \* close()'s update_phone_call: where it is, what it read
    \* ---- AiCaller
    ws_state,               \* the model connection: "open", "closing", "closed"
    cleanup_started,        \* AiCaller._cleanup_started
    audio_input_buffer_ms,  \* AiCaller._audio_input_buffer_ms
    audio_total_buffer_ms,  \* AiCaller._audio_total_buffer_ms
    audio_input_buffer,     \* AiCaller._audio_input_buffer
    user_speaking,          \* AiCaller._user_speaking
    speaker_segments,       \* AiCaller._speaker_segments
    message_queue,          \* what was put on AiMessageQueue.queue, in order
    start_speaking_buffer_ms,
    start_speaking_buffer_start_time,
    \* ---- CallRouter / BrowserRouter
    stream_sid,             \* CallRouter.stream_sid
    last_ai_item_id,
    mark_queue,
    mark_queue_elapsed_time,
    inter_mark_start_time,
    hang_up_reason,         \* HangUpReason: [reason, number]; reason None when unset
    router_cleanup_started, \* BrowserRouter._cleanup_started
    \* ---- the tasks of call_stream and AiCaller.close
    pc,                     \* position of the uplink, the downlink and __aexit__
    close_pc,               \* suspension point of the first entrant in close()
    close_owner,            \* the first entrant of close()
    owner_exc,              \* an exception waits for the owner's finally to end
    close_arg,              \* phone_call_end_reason of each invocation of close()
    close_ret,              \* what each invocation of close() returned
    post,                   \* what _cleanup did after close(): provider calls, event rows
    fx,                     \* how often each effect of close() was performed
    \* ---- the human endpoint
    human_ws,               \* "connected" or "disconnected"
    human_started,          \* the start frame was delivered
    marks_in_flight,        \* chunks sent whose mark the endpoint has not echoed yet
    \* ---- the listener (listen_in_stream)
    listener_pc,            \* "detached", "get" (awaits queue.get()) or "closed"
    listener_taken,         \* how many messages queue.get() has returned
    listener_out,           \* the lines the stream has yielded, in order
    \* ---- history
    hist,                   \* kickoffs sent so far; a speech_started or delta was handled
    \* ---- bookkeeping of the deltas forwarded to the human (history)
    deltas,                 \* per forwarded delta: item, ms, what became of it
    mark_ids,               \* for each MarkQueue entry the index of its delta (0: none)
    \* ---- environment
    now,                    \* last wall-clock reading (ms)
    sent,                   \* what the last step sent, in order, to the model and the human
    last_event,             \* the event or frame handled by the last step
    n_down, n_up            \* events / frames (other than marks) handled so far

aiVars == <<ws_state, cleanup_started, audio_input_buffer_ms,
            audio_total_buffer_ms, audio_input_buffer, user_speaking,
            speaker_segments, message_queue, start_speaking_buffer_ms,
            start_speaking_buffer_start_time>>
queryVars == <<documents, document_groups, query_pc>>
logVars == <<log_writes, log_file, log_pc, uploaded_log>>
recordVars == <<phone_call, hang_up_pc, update_pc>>
cfgVars == <<transport, call_type, audio_format, queue_attached,
             hang_up_sound_cached, knowledge_bases, queryVars, logVars,
             recordVars>>
listenerVars == <<listener_pc, listener_taken, listener_out>>
envVars == <<now, sent, last_event, n_down, n_up>>
markVars == <<last_ai_item_id, mark_queue, mark_queue_elapsed_time,
              inter_mark_start_time, deltas, mark_ids>>
routerVars == <<stream_sid, markVars, hang_up_reason, router_cleanup_started>>
closeVars == <<close_pc, close_owner, owner_exc, close_arg, close_ret, fx, post>>
humanVars == <<human_ws, human_started, marks_in_flight>>
vars == <<cfgVars, aiVars, routerVars, pc, closeVars, humanVars, listenerVars,
          hist, envVars>>

(***************************************************************************)
(* AiCaller: derived constants and audio_ms.                               *)
(***************************************************************************)
sampling_rate == IF audio_format = "pcm16" THEN 24000 ELSE 8000
bytes_per_sample == IF audio_format = "pcm16" THEN 2 ELSE 1

\* The same quotient rounded up.
audio_bytes_to_ms_up(nbytes, bps, rate) == (nbytes * 1000 + bps * rate - 1) \div (bps * rate)

\* int((len(audio_bytes) / bytes_per_sample) * 1000 / sample_rate): the
\* quotient of two integers, computed in floating point without loss for
\* any frame below 2^53 / 1000 bytes, and truncated.
audio_bytes_to_ms(nbytes, bps, rate) == (nbytes * 1000) \div (bps * rate)
audio_ms(nbytes) == audio_bytes_to_ms(nbytes, bytes_per_sample, sampling_rate)

(***************************************************************************)
(* Messages.                                                               *)
(***************************************************************************)
\* AiMessage is a validated model: the data of a speaker message is a new
\* list of the count segment objects that self._speaker_segments holds at
\* the push, the objects themselves being shared with that list.
QAudio(nbytes) ==
    [type |-> "audio", data |-> "audio", bytes |-> nbytes,
     audio_format |-> audio_format, count |-> 0]
QSpeaker(n) ==
    [type |-> "speaker", data |-> "segments", bytes |-> 0,
     audio_format |-> None, count |-> n]
QCallEnd ==
    [type |-> "call_end", data |-> None, bytes |-> 0,
     audio_format |-> None, count |-> 0]

WMsg(dst, type, item, ms) == [dst |-> dst, type |-> type, item_id |-> item, ms |-> ms]
AudioAppend(nbytes) == WMsg("model", "input_audio_buffer.append", None, nbytes)
ResponseCreate == WMsg("model", "response.create", None, 0)
IsResponseCreate(m) == m = ResponseCreate
Truncate(item, ms) == WMsg("model", "conversation.item.truncate", item, ms)

Segment(ts, speaker, transcript, item) ==
    [timestamp |-> ts, speaker |-> speaker, transcript |-> transcript, item_id |-> item]

\* AiCaller._update_speaker_segments: the list afterwards.
MatchIndexes(segs, item) == {i \in DOMAIN segs : segs[i].item_id = item}
FirstMatch(segs, item) ==
    CHOOSE i \in MatchIndexes(segs, item) : \A j \in MatchIndexes(segs, item) : i <= j
UpdatedSegments(segs, seg) ==
    IF MatchIndexes(segs, seg.item_id) # {}
    THEN [segs EXCEPT ![FirstMatch(segs, seg.item_id)].transcript = seg.transcript]
    ELSE Append(segs, seg)

\* AiMessageQueue.add_data behind the "is not None" guard of its callers.
Push(q, msgs) == IF queue_attached THEN q \o msgs ELSE q

\* The loop of speech_started over the pre-speech buffer (caller.py 395-403):
\* acc.total is the running _audio_total_buffer_ms, acc.pushed the audio
\* messages added to the listener queue.
\* (a loop that would test "ms > audio_start_ms")
FlushTestStrict(cum, audio_start_ms) == cum > audio_start_ms
FlushTest(cum, audio_start_ms) == cum >= audio_start_ms
RECURSIVE FlushLoop(_, _, _)
FlushLoop(buf, audio_start_ms, acc) ==
    IF buf = <<>> THEN acc
    ELSE LET e == Head(buf) IN
         FlushLoop(Tail(buf), audio_start_ms,
                   IF FlushTest(e.cum, audio_start_ms)
                   THEN [total |-> acc.total + e.ms,
                         pushed |-> Append(acc.pushed, QAudio(e.audio))]
                   ELSE acc)

BufferAfterFlush == <<>>

(***************************************************************************)
(* AiCaller._message_handler (caller.py 376-468).  t is the instant        *)
(* time.time() returns where the handler reads the clock; the step that    *)
(* runs the handler records it in now.                                     *)
(***************************************************************************)
message_handler(ev, t) ==
    CASE ev.type = "input_audio_buffer.speech_started" ->
            LET acc == FlushLoop(audio_input_buffer, ev.audio_start_ms,
                                 [total |-> audio_total_buffer_ms, pushed |-> <<>>])
            IN  /\ start_speaking_buffer_ms' = NoneInt
                /\ user_speaking' = TRUE
                /\ speaker_segments' = UpdatedSegments(speaker_segments,
                        Segment(audio_total_buffer_ms, "User", "", ev.item_id))
                /\ audio_total_buffer_ms' = acc.total
                /\ message_queue' = Push(message_queue,
                        <<QSpeaker(Len(speaker_segments'))>> \o acc.pushed)
                /\ audio_input_buffer' = BufferAfterFlush
                /\ UNCHANGED <<audio_input_buffer_ms,
                               start_speaking_buffer_start_time>>
      [] ev.type = "input_audio_buffer.speech_stopped" ->
                /\ user_speaking' = FALSE
                /\ speaker_segments' = UpdatedSegments(speaker_segments,
                        Segment(audio_total_buffer_ms, "Assistant", "", ""))
                /\ message_queue' = Push(message_queue,
                        <<QSpeaker(Len(speaker_segments'))>>)
                /\ UNCHANGED <<start_speaking_buffer_ms, audio_total_buffer_ms,
                               audio_input_buffer, audio_input_buffer_ms,
                               start_speaking_buffer_start_time>>
      [] ev.type = "response.audio.delta" ->
                /\ start_speaking_buffer_ms' = NoneInt
                /\ audio_total_buffer_ms' = audio_total_buffer_ms + audio_ms(ev.bytes)
                /\ message_queue' = Push(message_queue, <<QAudio(ev.bytes)>>)
                /\ speaker_segments' =
                        IF /\ Len(speaker_segments) > 0
                           /\ speaker_segments[Len(speaker_segments)].item_id = ""
                        THEN [speaker_segments EXCEPT
                                 ![Len(speaker_segments)].item_id = ev.item_id]
                        ELSE speaker_segments
                /\ UNCHANGED <<user_speaking, audio_input_buffer,
                               audio_input_buffer_ms,
                               start_speaking_buffer_start_time>>
      [] ev.type = "conversation.item.input_audio_transcription.completed" ->
                /\ speaker_segments' = UpdatedSegments(speaker_segments,
                        Segment(0, "User", ev.transcript, ev.item_id))
                /\ message_queue' = Push(message_queue,
                        <<QSpeaker(Len(speaker_segments'))>>)
                /\ UNCHANGED <<start_speaking_buffer_ms, user_speaking,
                               audio_total_buffer_ms, audio_input_buffer,
                               audio_input_buffer_ms,
                               start_speaking_buffer_start_time>>
      [] ev.type = "response.audio_transcript.done" ->
                /\ speaker_segments' = UpdatedSegments(speaker_segments,
                        Segment(0, "Assistant", ev.transcript, ev.item_id))
                /\ message_queue' = Push(message_queue,
                        <<QSpeaker(Len(speaker_segments'))>>)
                /\ UNCHANGED <<start_speaking_buffer_ms, user_speaking,
                               audio_total_buffer_ms, audio_input_buffer,
                               audio_input_buffer_ms,
                               start_speaking_buffer_start_time>>
      [] ev.type = "session.updated" ->
                /\ IF start_speaking_buffer_ms # NoneInt
                   THEN start_speaking_buffer_start_time' = t
                   ELSE UNCHANGED <<start_speaking_buffer_start_time>>
                /\ UNCHANGED <<start_speaking_buffer_ms, user_speaking,
                               speaker_segments, message_queue,
                               audio_total_buffer_ms, audio_input_buffer,
                               audio_input_buffer_ms>>
      [] OTHER ->   \* response.done, error, function calls: logged only
                UNCHANGED <<start_speaking_buffer_ms, user_speaking,
                            speaker_segments, message_queue,
                            audio_total_buffer_ms, audio_input_buffer,
                            audio_input_buffer_ms,
                            start_speaking_buffer_start_time>>

\* "someone has started speaking" (caller.py 382-384, 416-418)
SomeoneSpeaks(ev) ==
    ev.type \in {"input_audio_buffer.speech_started", "response.audio.delta"}

\* The instants the handler of ev may read from the clock.
HandlerClock(ev) ==
    IF ev.type = "session.updated" /\ start_speaking_buffer_ms # NoneInt
    THEN ClockReads(now) ELSE {now}

(***************************************************************************)
(* AiCaller.receive_human_audio (caller.py 340-374), entered with the      *)
(* model connection open (send_message raises otherwise).                  *)
(***************************************************************************)
KickoffArmed ==
    start_speaking_buffer_ms # NoneInt /\ start_speaking_buffer_start_time # NoneInt
\* (a kickoff that is due as soon as the window has elapsed)
KickoffDueAtOrAfter(t) ==
    KickoffArmed /\ t - start_speaking_buffer_start_time >= start_speaking_buffer_ms
KickoffDue(t) ==
    KickoffArmed /\ t - start_speaking_buffer_start_time > start_speaking_buffer_ms

\* receive_human_audio adding every frame to the total and to the listener
\* queue, whether or not the user is speaking.
receive_human_audio_counting_silence(nbytes, t) ==
    /\ now' = t
    /\ sent' = <<AudioAppend(nbytes)>>
                    \o (IF KickoffDue(t) THEN <<ResponseCreate>> ELSE <<>>)
    /\ start_speaking_buffer_ms' =
            IF KickoffDue(t) THEN NoneInt ELSE start_speaking_buffer_ms
    /\ audio_input_buffer_ms' = audio_input_buffer_ms + audio_ms(nbytes)
    /\ audio_total_buffer_ms' = audio_total_buffer_ms + audio_ms(nbytes)
    /\ message_queue' = Push(message_queue, <<QAudio(nbytes)>>)
    /\ UNCHANGED <<audio_input_buffer, user_speaking, speaker_segments,
                   start_speaking_buffer_start_time>>

receive_human_audio(nbytes, t) ==
    /\ now' = t
    /\ sent' = <<AudioAppend(nbytes)>>
                    \o (IF KickoffDue(t) THEN <<ResponseCreate>> ELSE <<>>)
    /\ start_speaking_buffer_ms' =
            IF KickoffDue(t) THEN NoneInt ELSE start_speaking_buffer_ms
    /\ audio_input_buffer_ms' = audio_input_buffer_ms + audio_ms(nbytes)
    /\ IF user_speaking
       THEN /\ audio_total_buffer_ms' = audio_total_buffer_ms + audio_ms(nbytes)
            /\ message_queue' = Push(message_queue, <<QAudio(nbytes)>>)
            /\ UNCHANGED audio_input_buffer
       ELSE /\ audio_input_buffer' = Append(audio_input_buffer,
                    [audio |-> nbytes, ms |-> audio_ms(nbytes),
                     cum |-> audio_input_buffer_ms + audio_ms(nbytes)])
            /\ UNCHANGED <<audio_total_buffer_ms, message_queue>>
    /\ UNCHANGED <<user_speaking, speaker_segments,
                   start_speaking_buffer_start_time>>

AudioClock == IF KickoffArmed THEN ClockReads(now) ELSE {now}

(***************************************************************************)
(* CallRouter / BrowserRouter: playback bookkeeping.  The fields are       *)
(* passed around as a record pb so that a handler is computed step by      *)
(* step, as the code runs it.                                              *)
(***************************************************************************)
PhoneCallId == "call-1"
StreamSid == "MZ1"
TransferNumber == "+15550100"
HangUpSoundMs == 300

HangUpReason(r, number) == [reason |-> r, number |-> number]
NoHangUpReason == HangUpReason(None, None)

HumanMedia(item, ms) == WMsg("human", "media", item, ms)
HumanMark == WMsg("human", "mark", None, 0)
HumanClear == WMsg("human", "clear", None, 0)
HumanSegments == WMsg("human", "speaker_segments", None, 0)
HumanMessage == WMsg("human", "message", None, 0)
\* twilio_utils.send_text_message / send_digits, as the router calls them
ProviderSms == WMsg("provider", "sms", None, 0)
ProviderDigits == WMsg("provider", "digits", None, 0)
\* receive_tool_call_result (caller.py 316-332): the function_call_output
ToolOutput(output) ==
    [dst |-> "model", type |-> "conversation.item.create", item_id |-> None,
     ms |-> 0, output |-> output]

Range(f) == {f[i] : i \in DOMAIN f}

Playback ==
    [last_ai_item_id |-> last_ai_item_id, mark_queue |-> mark_queue,
     mark_queue_elapsed_time |-> mark_queue_elapsed_time,
     inter_mark_start_time |-> inter_mark_start_time,
     deltas |-> deltas, mark_ids |-> mark_ids]

\* History: the fate of the deltas that are in the MarkQueue.
SetFate(ds, ids, fate) ==
    [i \in DOMAIN ds |-> IF i \in Range(ids) /\ ds[i].fate = "pending"
                         THEN [ds[i] EXCEPT !.fate = fate] ELSE ds[i]]
ForwardedMs(ds, item) ==
    SumSeq([i \in DOMAIN ds |-> IF ds[i].item_id = item THEN ds[i].ms ELSE 0])
\* A truncate of item at audio_end_ms accounts for the deltas of item that no
\* mark has acknowledged, provided it does not exceed what was forwarded.
TruncatedFates(ds, item, audio_end_ms) ==
    [i \in DOMAIN ds |->
        IF ds[i].item_id = item /\ ds[i].fate \in {"pending", "unmarked"}
        THEN [ds[i] EXCEPT !.fate = IF audio_end_ms <= ForwardedMs(ds, item)
                                    THEN "truncated" ELSE "overrun"]
        ELSE ds[i]]

\* self.mark_queue.clear()
ClearQueue(pb, fate) ==
    [pb EXCEPT !.mark_queue = <<>>, !.mark_ids = <<>>,
               !.deltas = SetFate(pb.deltas, pb.mark_ids, fate)]

\* The instants _truncate_audio_message may read from the clock.
TruncateReadsClock(pb) ==
    pb.last_ai_item_id # None /\ pb.inter_mark_start_time \notin {NoneInt, Unassigned}
TruncateClock(pb) == IF TruncateReadsClock(pb) THEN ClockReads(now) ELSE {now}

\* (an audio_end_ms that adds the wall-clock time without the cap of the head)
HeardMsUncapped(pb, t) ==
    IF pb.inter_mark_start_time # NoneInt
    THEN pb.mark_queue_elapsed_time + (t - pb.inter_mark_start_time)
    ELSE pb.mark_queue_elapsed_time

\* audio_end_ms as _truncate_audio_message computes it (audio_router.py 251-262).
HeardMs(pb, t) ==
    IF pb.inter_mark_start_time # NoneInt
    THEN LET inter_mark_elapsed_time == t - pb.inter_mark_start_time
         IN  pb.mark_queue_elapsed_time
             + Min(inter_mark_elapsed_time,
                   IF Len(pb.mark_queue) > 0 THEN pb.mark_queue[1]
                   ELSE inter_mark_elapsed_time)
    ELSE pb.mark_queue_elapsed_time

\* CallRouter._truncate_audio_message / BrowserRouter._truncate_audio_message.
\* raised: the read of an unassigned attribute, or the send on a model
\* connection that is no longer open, raises.
truncate_audio_message(pb, t) ==
    IF pb.last_ai_item_id = None
    THEN [pb |-> pb, out |-> <<>>, raised |-> FALSE]
    ELSE IF pb.inter_mark_start_time = Unassigned
    THEN [pb |-> pb, out |-> <<>>, raised |-> TRUE]
    ELSE LET heard == HeardMs(pb, t)
             pb1 == [pb EXCEPT !.mark_queue_elapsed_time = heard]
         IN  IF ws_state = "open"
             THEN [pb |-> [pb1 EXCEPT !.deltas =
                              TruncatedFates(pb.deltas, pb.last_ai_item_id, heard)],
                   out |-> <<Truncate(pb.last_ai_item_id, heard)>>,
                   raised |-> FALSE]
             ELSE [pb |-> pb1, out |-> <<>>, raised |-> TRUE]

\* (a reset that forgets to clear last_ai_item_id)
ResetPlaybackKeepsItem(pb) ==
    [pb EXCEPT !.mark_queue_elapsed_time = 0, !.inter_mark_start_time = NoneInt]

ResetPlayback(pb) ==
    [pb EXCEPT !.last_ai_item_id = None, !.mark_queue_elapsed_time = 0,
               !.inter_mark_start_time = NoneInt]

\* (a barge-in that clears the endpoint before it truncates)
handle_speech_started_clear_first(pb, t) ==
    IF Len(pb.mark_queue) > 0
    THEN LET tr == truncate_audio_message(pb, t) IN
         IF human_ws # "connected" THEN [pb |-> pb, out |-> <<>>, raised |-> TRUE]
         ELSE IF tr.raised
         THEN [pb |-> tr.pb, out |-> <<HumanClear>> \o tr.out, raised |-> TRUE]
         ELSE [pb |-> ResetPlayback(ClearQueue(tr.pb, "dropped")),
               out |-> <<HumanClear>> \o tr.out, raised |-> FALSE]
    ELSE [pb |-> ResetPlayback(pb), out |-> <<>>, raised |-> FALSE]

\* handle_speech_started (audio_router.py 267-277 and 578-586).
handle_speech_started(pb, t) ==
    IF Len(pb.mark_queue) > 0
    THEN LET tr == truncate_audio_message(pb, t) IN
         IF tr.raised THEN [pb |-> tr.pb, out |-> tr.out, raised |-> TRUE]
         ELSE IF human_ws # "connected"
         THEN [pb |-> tr.pb, out |-> tr.out, raised |-> TRUE]
         ELSE [pb |-> ResetPlayback(ClearQueue(tr.pb, "dropped")),
               out |-> tr.out \o <<HumanClear>>, raised |-> FALSE]
    ELSE [pb |-> ResetPlayback(pb), out |-> <<>>, raised |-> FALSE]

\* The bookkeeping of a forwarded delta (audio_router.py 225-238, 510-515).
NewItemReset(pb, item) ==
    IF pb.last_ai_item_id = None
    THEN [ClearQueue(pb, "dropped") EXCEPT
              !.last_ai_item_id = item, !.mark_queue_elapsed_time = 0,
              !.inter_mark_start_time = NoneInt]
    ELSE pb
QueueChunk(pb, item, ms) ==
    [pb EXCEPT !.mark_queue = Append(pb.mark_queue, ms),
               !.mark_ids = Append(pb.mark_ids, Len(pb.deltas) + 1),
               !.deltas = Append(pb.deltas, [item_id |-> item, ms |-> ms, fate |-> "pending"])]
ForwardUnmarked(pb, item, ms) ==
    [pb EXCEPT !.deltas = Append(pb.deltas, [item_id |-> item, ms |-> ms, fate |-> "unmarked"])]

\* The mark branch of receive_from_human_call (audio_router.py 292-300).
\* The pop with the inter-mark clock restarted whatever is left.
PopMarkRestartingClock(pb, t) ==
    IF Len(pb.mark_queue) > 0
    THEN [pb EXCEPT !.mark_queue = Tail(pb.mark_queue),
                    !.mark_ids = Tail(pb.mark_ids),
                    !.deltas = SetFate(pb.deltas, <<Head(pb.mark_ids)>>, "acked"),
                    !.mark_queue_elapsed_time = pb.mark_queue_elapsed_time + Head(pb.mark_queue),
                    !.inter_mark_start_time = t]
    ELSE pb

PopMark(pb, t) ==
    IF Len(pb.mark_queue) > 0
    THEN LET rest == Tail(pb.mark_queue) IN
         [pb EXCEPT !.mark_queue = rest,
                    !.mark_ids = Tail(pb.mark_ids),
                    !.deltas = SetFate(pb.deltas, <<Head(pb.mark_ids)>>, "acked"),
                    !.mark_queue_elapsed_time = pb.mark_queue_elapsed_time + Head(pb.mark_queue),
                    !.inter_mark_start_time = IF Len(rest) > 0 THEN t ELSE NoneInt]
    ELSE pb
MarkClock == IF Len(mark_queue) > 1 THEN ClockReads(now) ELSE {now}

SetPlayback(pb) ==
    /\ last_ai_item_id' = pb.last_ai_item_id
    /\ mark_queue' = pb.mark_queue
    /\ mark_queue_elapsed_time' = pb.mark_queue_elapsed_time
    /\ inter_mark_start_time' = pb.inter_mark_start_time
    /\ deltas' = pb.deltas
    /\ mark_ids' = pb.mark_ids

(***************************************************************************)
(* AiCaller.close (caller.py 470-521) and the routers' _cleanup, which     *)
(* every way out of the two loops runs in a finally block.                 *)
(***************************************************************************)
Tasks == {"up", "down", "exit"}
Returned(total) == <<PhoneCallId, total>>
NotReturned == <<None, 0>>

\* (a close() that never looks at _cleanup_started)
CloseInvokeUnguarded(task, r, raised, total, rest) ==
    /\ close_arg' = [close_arg EXCEPT ![task] = r]
    /\ cleanup_started' = TRUE
    /\ close_owner' = task
    /\ owner_exc' = raised
    /\ close_pc' = "ws_close"
    /\ fx' = [fx EXCEPT !.body = @ + 1, !.ws_close = @ + 1]
    /\ ws_state' = IF ws_state = "open" THEN "closing" ELSE ws_state
    /\ pc' = [pc EXCEPT ![task] = "closing"]
    /\ UNCHANGED <<close_ret, post>>

\* close() as invoked by task with cause r, up to its first suspension;
\* total is _audio_total_buffer_ms at that moment.
\* raised: an exception is in flight while the finally block runs.
\* rest: what the caller goes on to do when close() returns at once.
CloseInvoke(task, r, raised, total, rest) ==
    /\ close_arg' = [close_arg EXCEPT ![task] = r]
    /\ IF cleanup_started
       THEN /\ close_ret' = [close_ret EXCEPT ![task] = Returned(total)]
            /\ post' = rest.post
            /\ pc' = [pc EXCEPT ![task] =
                         IF raised \/ rest.raised THEN "raised" ELSE "done"]
            /\ UNCHANGED <<cleanup_started, ws_state, close_pc, close_owner,
                           owner_exc, fx>>
       ELSE /\ cleanup_started' = TRUE
            /\ close_owner' = task
            /\ owner_exc' = raised
            /\ close_pc' = "ws_close"
            /\ fx' = [fx EXCEPT !.body = @ + 1, !.ws_close = @ + 1]
            /\ ws_state' = IF ws_state = "open" THEN "closing" ELSE ws_state
            /\ pc' = [pc EXCEPT ![task] = "closing"]
            /\ UNCHANGED <<close_ret, post>>

DefaultReason(hur) ==
    IF hur.reason = None THEN HangUpReason("unknown", None) ELSE hur

\* How the provider answers calls(call_sid).update(...) (twilio_utils.py
\* 17-24): the client raises when the request is refused.
ProviderAnswers == {"accepts", "raises"}
NoRest == [post |-> post, raised |-> FALSE]

\* What _cleanup does once close() has returned total as the duration.
\* CallRouter (audio_router.py 87-104): reads self.hang_up_reason.reason,
\* tells the provider to dial or to hang up, and for an inbound call inserts
\* the completed row.  BrowserRouter (373-383): inserts the row.
rest_of_cleanup(hur, total, ans) ==
    IF transport = "telephony"
    THEN IF hur.reason = None THEN [post |-> post, raised |-> TRUE]
         ELSE LET told == IF hur.reason = "transferred"
                          THEN [post EXCEPT !.dial = @ + 1]
                          ELSE [post EXCEPT !.hangup = @ + 1]
              IN  IF ans = "raises" THEN [post |-> told, raised |-> TRUE]
                  ELSE IF call_type = "inbound"
                  THEN [post |-> [told EXCEPT !.rows = Append(@, total \div 1000)],
                        raised |-> FALSE]
                  ELSE [post |-> told, raised |-> FALSE]
    ELSE [post |-> [post EXCEPT !.rows = Append(@, total \div 1000)],
          raised |-> FALSE]

\* CallRouter._cleanup (79-104) / BrowserRouter._cleanup (346-383), entered
\* with hang_up_reason = hur.
cleanup(task, hur, raised, total) ==
    IF transport = "browser" /\ router_cleanup_started
    THEN /\ hang_up_reason' = hur
         /\ pc' = [pc EXCEPT ![task] = IF raised THEN "raised" ELSE "done"]
         /\ UNCHANGED <<router_cleanup_started, closeVars, cleanup_started, ws_state>>
    ELSE /\ router_cleanup_started' = (transport = "browser")
         /\ hang_up_reason' = DefaultReason(hur)
         /\ \E ans \in ProviderAnswers :
                CloseInvoke(task, DefaultReason(hur).reason, raised, total,
                            rest_of_cleanup(DefaultReason(hur), total, ans))

AwaitsLookup(ev) ==
    /\ ev.type = "response.function_call_arguments.done"
    /\ ev.name = "query_documents"

\* The downlink task is suspended in the document lookup.
await_lookup(hur) ==
    /\ hang_up_reason' = hur
    /\ pc' = [pc EXCEPT !["down"] = "query"]
    /\ UNCHANGED <<router_cleanup_started, closeVars, cleanup_started, ws_state>>

\* The loop goes on to its next iteration.
continue(hur) ==
    /\ hang_up_reason' = hur
    /\ UNCHANGED <<router_cleanup_started, closeVars, cleanup_started, ws_state, pc>>

CloseStepFrame ==
    /\ sent' = <<>>
    /\ last_event' = NoEvent
    /\ UNCHANGED <<cfgVars, listenerVars, hist,
                   routerVars, humanVars, now, n_down, n_up,
                   cleanup_started, audio_input_buffer_ms, audio_total_buffer_ms,
                   audio_input_buffer, user_speaking, speaker_segments,
                   start_speaking_buffer_ms, start_speaking_buffer_start_time,
                   close_owner, owner_exc, close_arg>>

\* await self._ws_client.close() returns; end_call() (caller.py 478-483).
CloseWsClosed ==
    /\ close_pc = "ws_close"
    /\ ws_state' = "closed"
    /\ message_queue' = Push(message_queue, <<QCallEnd>>)
    /\ fx' = [fx EXCEPT !.call_end = @ + (IF queue_attached THEN 1 ELSE 0)]
    /\ close_pc' = "gather"
    /\ UNCHANGED <<pc, close_ret, post>>
    /\ CloseStepFrame

\* await asyncio.gather(*self._log_tasks) returns (caller.py 485-487).
CloseLogsFlushed ==
    /\ close_pc = "gather"
    /\ close_pc' = "upload"
    /\ UNCHANGED <<pc, close_ret, post, fx, ws_state, message_queue>>
    /\ CloseStepFrame

\* The zip of the log is uploaded (caller.py 489-508).
CloseUploaded ==
    /\ close_pc = "upload"
    /\ fx' = [fx EXCEPT !.upload = @ + 1]
    /\ close_pc' = "db"
    /\ UNCHANGED <<pc, close_ret, post, ws_state, message_queue>>
    /\ CloseStepFrame

\* A failed upload that close() would survive, going on to the record.
CloseUploadIgnored ==
    /\ close_pc = "upload"
    /\ close_pc' = "db"
    /\ UNCHANGED <<pc, close_ret, post, fx, ws_state, message_queue>>
    /\ CloseStepFrame

\* The read of the log or the upload raises: close() and _cleanup are left.
CloseUploadFailed ==
    /\ close_pc = "upload"
    /\ close_pc' = "aborted"
    /\ pc' = [pc EXCEPT ![close_owner] = "raised"]
    /\ UNCHANGED <<close_ret, post, fx, ws_state, message_queue>>
    /\ CloseStepFrame

\* update_phone_call, os.remove, return (caller.py 510-521); then the rest
\* of the owner's _cleanup, which reads self.hang_up_reason.reason.
CloseRecordUpdated ==
    /\ close_pc = "db"
    /\ fx' = [fx EXCEPT !.db_update = @ + 1, !.remove = @ + 1]
    /\ close_ret' = [close_ret EXCEPT ![close_owner] = Returned(audio_total_buffer_ms)]
    /\ close_pc' = "returned"
    /\ \E ans \in ProviderAnswers :
          LET rest == IF close_owner = "exit" THEN NoRest
                      ELSE rest_of_cleanup(hang_up_reason, audio_total_buffer_ms, ans)
          IN  /\ post' = rest.post
              /\ pc' = [pc EXCEPT ![close_owner] =
                           IF owner_exc \/ rest.raised THEN "raised" ELSE "done"]
    /\ UNCHANGED <<ws_state, message_queue>>
    /\ CloseStepFrame

\* update_phone_call has written the record and os.remove raises (caller.py
\* 510-518): close() and _cleanup are left.
CloseRemoveFailed ==
    /\ close_pc = "db"
    /\ fx' = [fx EXCEPT !.db_update = @ + 1]
    /\ close_pc' = "aborted"
    /\ pc' = [pc EXCEPT ![close_owner] = "raised"]
    /\ UNCHANGED <<close_ret, post, ws_state, message_queue>>
    /\ CloseStepFrame

\* AiCaller.__aexit__ (caller.py 239-241): asyncio.gather of call_stream has
\* returned (both tasks are over) or has raised (one task raised).
GatherOver ==
    \/ \A k \in {"up", "down"} : pc[k] \in {"done", "raised"}
    \/ \E k \in {"up", "down"} : pc[k] = "raised"

AexitFrame ==
    /\ sent' = <<>>
    /\ last_event' = NoEvent
    /\ UNCHANGED <<cfgVars, listenerVars, hist,
                   routerVars, humanVars, now, n_down, n_up,
                   audio_input_buffer_ms, audio_total_buffer_ms,
                   audio_input_buffer, user_speaking,
                   speaker_segments, message_queue, start_speaking_buffer_ms,
                   start_speaking_buffer_start_time>>

\* await self._exit_stack.__aexit__(...): the connection's context closes it.
AexitStack ==
    /\ pc["exit"] = "wait"
    /\ GatherOver
    /\ ws_state' = "closed"
    /\ pc' = [pc EXCEPT !["exit"] = "stack"]
    /\ UNCHANGED <<cleanup_started, closeVars>>
    /\ AexitFrame

\* await self.close(PhoneCallEndReason.unknown)
AexitClose ==
    /\ pc["exit"] = "stack"
    /\ CloseInvoke("exit", "unknown", FALSE, audio_total_buffer_ms, NoRest)
    /\ AexitFrame

(***************************************************************************)
(* send_to_human: what the router does with one message the iterator       *)
(* yields.  exit: the loop is left (break, or an exception that the        *)
(* except clauses of send_to_human swallow).                               *)
(***************************************************************************)
FunctionCall(name, arg) ==
    Ev("response.function_call_arguments.done", None, 0, 0, "", name, arg)
TransferLabels == {"sales"}     \* tool_configuration["transfer_call_numbers"]

\* _transfer_call (audio_router.py 138-157, 407-428)
transfer_call(hur, label) ==
    IF label \in TransferLabels THEN HangUpReason("transferred", TransferNumber)
    ELSE hur

Outcome(pb, hur, out, exit) == [pb |-> pb, hur |-> hur, out |-> out, exit |-> exit]

\* json.loads(message["arguments"]) raises, or the field read of it is
\* missing.
InvalidArgs == "<not json>"

\* How the collaborator a tool calls answers: the provider's HTTP API, the
\* insert of the text-message row.
ExtOutcomes(ev) ==
    IF ev.type # "response.function_call_arguments.done" THEN {"ok"}
    ELSE IF ev.name = "send_text_message" /\ ev.arg # InvalidArgs
    THEN IF transport = "telephony" THEN {"ok", "provider_raises", "db_raises"}
         ELSE {"ok", "db_raises"}
    ELSE IF ev.name = "enter_keypad" /\ ev.arg # InvalidArgs /\ transport = "telephony"
    THEN {"ok", "provider_raises"}
    ELSE {"ok"}

\* CallRouter.send_to_human, the body of the loop (audio_router.py 162-241)
call_router_step(ev, pb, hur, t, ext) ==
    CASE ev.type = "response.function_call_arguments.done" ->
            (CASE ev.name = "hang_up" ->
                    IF ev.arg = InvalidArgs THEN Outcome(pb, hur, <<>>, TRUE)
                    ELSE IF ev.arg = "answering_machine"
                    THEN Outcome(pb, HangUpReason("voice_mail_bot", None), <<>>, TRUE)
                    ELSE Outcome(pb, HangUpReason("end_of_call_bot", None), <<>>, FALSE)
               [] ev.name = "cancel_hang_up" -> Outcome(pb, NoHangUpReason, <<>>, FALSE)
               [] ev.name = "query_documents" ->
                    Outcome(pb, hur, <<>>, ev.arg = InvalidArgs)
               [] ev.name = "send_text_message" ->
                    IF ev.arg = InvalidArgs \/ ext = "provider_raises"
                    THEN Outcome(pb, hur, <<>>, TRUE)
                    ELSE Outcome(pb, hur, <<ProviderSms>>, ext = "db_raises")
               [] ev.name = "transfer_call" ->
                    IF ev.arg = InvalidArgs THEN Outcome(pb, hur, <<>>, TRUE)
                    ELSE Outcome(pb, transfer_call(hur, ev.arg), <<>>, FALSE)
               [] ev.name = "enter_keypad" ->
                    IF ev.arg = InvalidArgs \/ ext = "provider_raises"
                    THEN Outcome(pb, hur, <<>>, TRUE)
                    ELSE Outcome(pb, hur, <<ProviderDigits>>, FALSE)
               [] OTHER -> Outcome(pb, hur, <<>>, FALSE))
      [] ev.type = "response.audio.delta" ->
            IF human_ws # "connected" THEN Outcome(pb, hur, <<>>, TRUE)
            ELSE LET pb1 == NewItemReset(pb, ev.item_id)
                     ms == audio_ms(ev.bytes)
                 IN  IF stream_sid # None
                     THEN Outcome(QueueChunk(pb1, ev.item_id, ms), hur,
                                  <<HumanMedia(ev.item_id, ms), HumanMark>>, FALSE)
                     ELSE Outcome(ForwardUnmarked(pb1, ev.item_id, ms), hur,
                                  <<HumanMedia(ev.item_id, ms)>>, FALSE)
      [] ev.type = "input_audio_buffer.speech_started" ->
            LET h == handle_speech_started(pb, t)
            IN  Outcome(h.pb, hur, h.out, h.raised)
      [] OTHER -> Outcome(pb, hur, <<>>, FALSE)

\* BrowserRouter.send_to_human, the body of the loop (audio_router.py 433-540)
browser_router_step(ev, pb, hur, t, ext) ==
    CASE ev.type = "response.function_call_arguments.done" ->
            (CASE ev.name = "hang_up" ->
                    LET r == HangUpReason(IF ev.arg = "answering_machine"
                                          THEN "voice_mail_bot"
                                          ELSE "end_of_call_bot", None)
                        bad == ev.arg = InvalidArgs
                    IN  IF ~hang_up_sound_cached
                        THEN Outcome(pb, IF bad THEN hur ELSE r, <<>>, bad)
                        ELSE IF human_ws # "connected" THEN Outcome(pb, hur, <<>>, TRUE)
                        ELSE Outcome([pb EXCEPT
                                        !.mark_queue = Append(pb.mark_queue, HangUpSoundMs),
                                        !.mark_ids = Append(pb.mark_ids, 0)],
                                     IF bad THEN hur ELSE r,
                                     <<HumanMedia(None, HangUpSoundMs)>>, bad)
               [] ev.name = "cancel_hang_up" -> Outcome(pb, NoHangUpReason, <<>>, FALSE)
               [] ev.name = "query_documents" ->
                    Outcome(pb, hur, <<>>, ev.arg = InvalidArgs)
               [] ev.name = "send_text_message" ->
                    IF ev.arg = InvalidArgs \/ human_ws # "connected"
                    THEN Outcome(pb, hur, <<>>, TRUE)
                    ELSE Outcome(pb, hur, <<HumanMessage>>, ext = "db_raises")
               [] ev.name = "transfer_call" ->
                    IF ev.arg = InvalidArgs THEN Outcome(pb, hur, <<>>, TRUE)
                    ELSE Outcome(pb, transfer_call(hur, ev.arg), <<>>, FALSE)
               [] ev.name = "enter_keypad" ->
                    IF ev.arg = InvalidArgs \/ human_ws # "connected"
                    THEN Outcome(pb, hur, <<>>, TRUE)
                    ELSE Outcome(pb, hur, <<HumanMessage>>, FALSE)
               [] OTHER -> Outcome(pb, hur, <<>>, FALSE))
      [] ev.type = "response.audio.delta" ->
            IF human_ws # "connected" THEN Outcome(pb, hur, <<>>, TRUE)
            ELSE LET ms == audio_ms(ev.bytes)
                 IN  Outcome(QueueChunk(NewItemReset(pb, ev.item_id), ev.item_id, ms),
                             hur, <<HumanMedia(ev.item_id, ms)>>, FALSE)
      [] ev.type = "input_audio_buffer.speech_started" ->
            LET h == handle_speech_started(pb, t)
            IN  Outcome(h.pb, hur, h.out, h.raised)
      [] ev.type \in {"response.audio_transcript.done",
                      "conversation.item.input_audio_transcription.completed"} ->
            IF human_ws # "connected" THEN Outcome(pb, hur, <<>>, TRUE)
            ELSE Outcome(pb, hur, <<HumanSegments>>, FALSE)
      [] OTHER -> Outcome(pb, hur, <<>>, FALSE)

\* The names the chains of send_to_human test for.
DeclaredTools == {"hang_up", "cancel_hang_up", "query_documents",
                  "send_text_message", "transfer_call", "enter_keypad"}

\* (a dispatcher that gives up on a tool name it does not know)
router_step_unknown_ends(ev, pb, hur, t, ext) ==
    IF /\ ev.type = "response.function_call_arguments.done"
       /\ ev.name \notin DeclaredTools
    THEN Outcome(pb, hur, <<>>, TRUE)
    ELSE IF transport = "telephony" THEN call_router_step(ev, pb, hur, t, ext)
    ELSE browser_router_step(ev, pb, hur, t, ext)

router_step(ev, pb, hur, t, ext) ==
    IF transport = "telephony" THEN call_router_step(ev, pb, hur, t, ext)
    ELSE browser_router_step(ev, pb, hur, t, ext)

\* The chunks in out that the endpoint will echo a mark for.
EchoedBy(out) ==
    Cardinality({i \in DOMAIN out :
        out[i].type = (IF transport = "telephony" THEN "mark" ELSE "media")})

\* BrowserRouter._cleanup tells the browser of a transfer (355-367).
CleanupSends(hur) ==
    IF /\ transport = "browser"
       /\ ~router_cleanup_started
       /\ hur.reason = "transferred"
       /\ human_ws = "connected"
    THEN <<HumanMessage>> ELSE <<>>

(***************************************************************************)
(* The downlink task: send_to_human over AiCaller.__aiter__.               *)
(***************************************************************************)
SpeechStarted(item, start) ==
    Ev("input_audio_buffer.speech_started", item, start, 0, "", None, None)
SpeechStopped == Ev("input_audio_buffer.speech_stopped", None, 0, 0, "", None, None)
AudioDelta(item, nbytes) == Ev("response.audio.delta", item, 0, nbytes, "", None, None)
InputTranscript(item, text) ==
    Ev("conversation.item.input_audio_transcription.completed", item, 0, 0, text, None, None)
AudioTranscript(item, text) ==
    Ev("response.audio_transcript.done", item, 0, 0, text, None, None)
SessionUpdated == Ev("session.updated", None, 0, 0, "", None, None)
Frame(type, nbytes) == Ev(type, None, 0, nbytes, "", None, None)

\* The events the model service sends during a routed call.
RouterDeltaBytes == IF audio_format = "pcm16" THEN {9600} ELSE {1600}
RouterEvents ==
    {SpeechStarted(UserItems[1], 320)}
    \cup {AudioDelta(i, b) : i \in AssistantItems, b \in RouterDeltaBytes}
    \cup {FunctionCall("hang_up", a) : a \in {"answering_machine", "end_of_call"}}
    \cup {FunctionCall("cancel_hang_up", None)}
    \cup {FunctionCall("transfer_call", l) : l \in {"sales"}}
    \cup {FunctionCall("no_such_tool", None)}
    \cup (IF transport = "browser" THEN {AudioTranscript("a1", "hello")} ELSE {})

\* The instants the handling of ev may read from the clock.
DownClock(ev) ==
    IF ev.type = "input_audio_buffer.speech_started"
    THEN IF Len(mark_queue) > 0 THEN TruncateClock(Playback) ELSE {now}
    ELSE HandlerClock(ev)

\* One iteration of "async for message in self.ai_caller": recv, the
\* message handler, and the router's handling of the yielded message.
\* A query_documents call with readable arguments suspends the loop in
\* "await query_documents(...)" (audio_router.py 182-194, 466-478).
SendToHuman(ev, t, ext) ==
    /\ pc["down"] = "loop"
    /\ n_down < MaxDown
    /\ message_handler(ev, t)
    /\ now' = t
    /\ LET o == router_step(ev, Playback, hang_up_reason, t, ext)
       IN  /\ SetPlayback(o.pb)
           /\ marks_in_flight' = marks_in_flight + EchoedBy(o.out)
           /\ IF o.exit
              THEN /\ cleanup("down", o.hur, FALSE, audio_total_buffer_ms')
                   /\ sent' = o.out \o CleanupSends(DefaultReason(o.hur))
              ELSE IF AwaitsLookup(ev)
              THEN /\ await_lookup(o.hur)
                   /\ sent' = o.out
              ELSE /\ continue(o.hur)
                   /\ sent' = o.out
    /\ last_event' = ev
    /\ n_down' = n_down + 1
    /\ hist' = [hist EXCEPT !.spoke = @ \/ SomeoneSpeaks(ev)]
    /\ UNCHANGED <<cfgVars, listenerVars, stream_sid, human_ws, human_started,
                   n_up>>

\* query_documents (document_query.py 144-164) answers at once when no
\* knowledge base is configured; otherwise it reads the database and calls
\* the language model, and nothing there catches what they raise.
LookupOutcomes ==
    IF knowledge_bases = 0 THEN {"No documents found"} ELSE {"answer", "raises"}

\* The lookup returns to the loop: receive_tool_call_result (caller.py
\* 316-332) sends the function_call_output and asks for a response, which
\* disarms the kickoff.  An exception of the lookup or of the send is caught
\* by "except Exception" of send_to_human, whose finally runs _cleanup.
QueryDocumentsReturns(res) ==
    /\ pc["down"] = "query"
    /\ IF res = "raises" \/ ws_state # "open"
       THEN /\ cleanup("down", hang_up_reason, FALSE, audio_total_buffer_ms)
            /\ sent' = CleanupSends(DefaultReason(hang_up_reason))
            /\ UNCHANGED start_speaking_buffer_ms
       ELSE /\ pc' = [pc EXCEPT !["down"] = "loop"]
            /\ sent' = <<ToolOutput(res), ResponseCreate>>
            /\ start_speaking_buffer_ms' = NoneInt
            /\ UNCHANGED <<hang_up_reason, router_cleanup_started, closeVars,
                           cleanup_started, ws_state>>
    /\ last_event' = [NoEvent EXCEPT !.type = "lookup", !.text = res]
    /\ UNCHANGED <<cfgVars, listenerVars, hist,
                   stream_sid, markVars, humanVars, now, n_down, n_up,
                   audio_input_buffer_ms, audio_total_buffer_ms,
                   audio_input_buffer, user_speaking, speaker_segments,
                   message_queue, start_speaking_buffer_start_time>>

\* A message of the model service that json.loads cannot read, or that has
\* no "type": _message_handler raises out of __aiter__ (caller.py 381-384,
\* 457-468) and send_to_human ends in its except and finally clauses.
ReceiveMalformedEvent ==
    /\ pc["down"] = "loop"
    /\ n_down < MaxDown
    /\ cleanup("down", hang_up_reason, FALSE, audio_total_buffer_ms)
    /\ sent' = CleanupSends(DefaultReason(hang_up_reason))
    /\ last_event' = [NoEvent EXCEPT !.type = "malformed"]
    /\ n_down' = n_down + 1
    /\ UNCHANGED <<cfgVars, listenerVars, hist,
                   stream_sid, markVars, humanVars, now, n_up,
                   audio_input_buffer_ms, audio_total_buffer_ms,
                   audio_input_buffer, user_speaking, speaker_segments,
                   message_queue, start_speaking_buffer_ms,
                   start_speaking_buffer_start_time>>

\* recv raises ConnectionClosed: __aiter__ returns and the loop ends.
DownlinkConnectionClosed ==
    /\ pc["down"] = "loop"
    /\ ws_state = "closed"
    /\ cleanup("down", hang_up_reason, FALSE, audio_total_buffer_ms)
    /\ sent' = CleanupSends(DefaultReason(hang_up_reason))
    /\ last_event' = NoEvent
    /\ UNCHANGED <<cfgVars, listenerVars, hist,
                   stream_sid, markVars, humanVars, now, n_down, n_up,
                   audio_input_buffer_ms, audio_total_buffer_ms,
                   audio_input_buffer, user_speaking, speaker_segments,
                   message_queue, start_speaking_buffer_ms,
                   start_speaking_buffer_start_time>>

\* The finally block of BrowserRouter.send_to_human closes the browser's
\* socket once _cleanup has returned (audio_router.py 547-558).
BrowserSocketClosed ==
    /\ transport = "browser"
    /\ pc["down"] = "done"
    /\ human_ws = "connected"
    /\ human_ws' = "disconnected"
    /\ sent' = <<>>
    /\ last_event' = NoEvent
    /\ UNCHANGED <<cfgVars, listenerVars, hist,
                   aiVars, routerVars, pc, closeVars, human_started,
                   marks_in_flight, now, n_down, n_up>>

(***************************************************************************)
(* The uplink task: receive_from_human_call (audio_router.py 279-319 and   *)
(* 588-636).                                                               *)
(***************************************************************************)
UserHangup == HangUpReason("user_hangup", None)
Handled(pb, hur, out, raised) == [pb |-> pb, hur |-> hur, out |-> out, raised |-> raised]

\* except websockets.exceptions.ConnectionClosedOK (309-315, 624-631)
closed_ok_handler(pb, hur, t) ==
    IF transport = "browser" /\ hur.reason # None
    THEN Handled(pb, hur, <<>>, FALSE)
    ELSE LET tr == truncate_audio_message(pb, t)
         IN  Handled(tr.pb, UserHangup, tr.out, tr.raised)
ClosedOkClock ==
    IF transport = "browser" /\ hang_up_reason.reason # None THEN {now}
    ELSE TruncateClock(Playback)

UplinkReady ==
    /\ pc["up"] = "loop"
    /\ n_up < MaxUp
    /\ human_ws = "connected"

\* A media frame while the model connection is open.
ReceiveMedia(nbytes, t) ==
    /\ UplinkReady
    /\ human_started
    /\ ws_state = "open"
    /\ receive_human_audio(nbytes, t)
    /\ last_event' = Frame("media", nbytes)
    /\ n_up' = n_up + 1
    /\ hist' = [hist EXCEPT !.kickoffs = @ + Len(SelectSeq(sent', IsResponseCreate))]
    /\ UNCHANGED <<cfgVars, listenerVars, routerVars, pc, closeVars, humanVars,
                   ws_state,
                   cleanup_started, n_down>>

\* A media frame while the model connection is closing or closed: the send
\* raises ConnectionClosedOK (ok) or ConnectionClosedError.
ReceiveMediaClosed(nbytes, ok, t) ==
    /\ UplinkReady
    /\ human_started
    /\ ws_state # "open"
    /\ LET h == IF ok THEN closed_ok_handler(Playback, hang_up_reason, t)
                ELSE Handled(Playback, hang_up_reason, <<>>, FALSE)
       IN  /\ SetPlayback(h.pb)
           /\ cleanup("up", h.hur, h.raised, audio_total_buffer_ms)
           /\ sent' = h.out \o CleanupSends(DefaultReason(h.hur))
    /\ now' = t
    /\ last_event' = Frame("media", nbytes)
    /\ n_up' = n_up + 1
    /\ UNCHANGED <<cfgVars, listenerVars, hist,
                   stream_sid, humanVars, n_down,
                   audio_input_buffer_ms, audio_total_buffer_ms,
                   audio_input_buffer, user_speaking, speaker_segments,
                   message_queue, start_speaking_buffer_ms,
                   start_speaking_buffer_start_time>>

\* The start frame, the first frame of the stream.
ReceiveStart ==
    /\ UplinkReady
    /\ ~human_started
    /\ human_started' = TRUE
    /\ stream_sid' = IF transport = "telephony" THEN StreamSid ELSE stream_sid
    /\ SetPlayback([ClearQueue(Playback, "dropped") EXCEPT
                        !.last_ai_item_id = None, !.mark_queue_elapsed_time = 0])
    /\ sent' = <<>>
    /\ last_event' = Frame("start", 0)
    /\ n_up' = n_up + 1
    /\ UNCHANGED <<cfgVars, listenerVars, hist,
                   aiVars, hang_up_reason, router_cleanup_started, pc,
                   closeVars, human_ws, marks_in_flight, now, n_down>>

\* A break at any mark once a cause is set.
HangUpDueAtAnyMark(queue, hur) == Len(queue) >= 1 /\ hur.reason # None

\* The mark popped was the last one and a cause is set: "break"
\* (audio_router.py 298-308, 605-615); queue is the MarkQueue before the pop.
HangUpDue(queue, hur) == Len(queue) = 1 /\ hur.reason # None

\* A mark frame: the endpoint echoes the mark of a chunk it has played.  At
\* most one mark comes back for each chunk that was sent.
ReceiveMark(t) ==
    /\ pc["up"] = "loop"
    /\ human_ws = "connected"
    /\ human_started
    /\ marks_in_flight > 0
    /\ marks_in_flight' = marks_in_flight - 1
    /\ SetPlayback(PopMark(Playback, t))
    /\ now' = t
    /\ IF HangUpDue(mark_queue, hang_up_reason)
       THEN cleanup("up", hang_up_reason, FALSE, audio_total_buffer_ms)
       ELSE continue(hang_up_reason)
    /\ sent' = IF HangUpDue(mark_queue, hang_up_reason)
               THEN CleanupSends(hang_up_reason) ELSE <<>>
    /\ last_event' = Frame("mark", 0)
    /\ UNCHANGED <<cfgVars, listenerVars, hist,
                   stream_sid, human_ws, human_started, n_down, n_up,
                   audio_input_buffer_ms, audio_total_buffer_ms,
                   audio_input_buffer, user_speaking, speaker_segments,
                   message_queue, start_speaking_buffer_ms,
                   start_speaking_buffer_start_time>>

\* A frame that json.loads cannot read, or that has no "event": the
\* exception leaves the loop through "except Exception" and the finally
\* clause runs _cleanup (audio_router.py 281-319, 590-636).
ReceiveMalformedFrame ==
    /\ UplinkReady
    /\ cleanup("up", hang_up_reason, FALSE, audio_total_buffer_ms)
    /\ sent' = CleanupSends(DefaultReason(hang_up_reason))
    /\ last_event' = Frame("malformed", 0)
    /\ n_up' = n_up + 1
    /\ UNCHANGED <<cfgVars, listenerVars, hist,
                   stream_sid, markVars, humanVars, now, n_down,
                   audio_input_buffer_ms, audio_total_buffer_ms,
                   audio_input_buffer, user_speaking, speaker_segments,
                   message_queue, start_speaking_buffer_ms,
                   start_speaking_buffer_start_time>>

\* The hangup frame of the browser (audio_router.py 616-623).  An exception
\* of the truncate is swallowed by the except clauses: the reason is set.
ReceiveHangup(t) ==
    /\ UplinkReady
    /\ human_started
    /\ transport = "browser"
    /\ LET tr == truncate_audio_message(Playback, t)
       IN  /\ SetPlayback(tr.pb)
           /\ sent' = tr.out \o CleanupSends(UserHangup)
    /\ cleanup("up", UserHangup, FALSE, audio_total_buffer_ms)
    /\ now' = t
    /\ last_event' = Frame("hangup", 0)
    /\ n_up' = n_up + 1
    /\ UNCHANGED <<cfgVars, listenerVars, hist,
                   stream_sid, humanVars, n_down,
                   audio_input_buffer_ms, audio_total_buffer_ms,
                   audio_input_buffer, user_speaking, speaker_segments,
                   message_queue, start_speaking_buffer_ms,
                   start_speaking_buffer_start_time>>

\* The stream of the human endpoint has ended: iter_text ends the loop, or
\* the server stack raises ConnectionClosedOK into it (ok).
StreamEnd(ok, t) ==
    /\ pc["up"] = "loop"
    /\ human_ws = "disconnected"
    /\ LET h == IF ok THEN closed_ok_handler(Playback, hang_up_reason, t)
                ELSE Handled(Playback, hang_up_reason, <<>>, FALSE)
       IN  /\ SetPlayback(h.pb)
           /\ cleanup("up", h.hur, h.raised, audio_total_buffer_ms)
           /\ sent' = h.out
    /\ now' = t
    /\ last_event' = Frame("stream_end", 0)
    /\ UNCHANGED <<cfgVars, listenerVars, hist,
                   stream_sid, humanVars, n_down, n_up,
                   audio_input_buffer_ms, audio_total_buffer_ms,
                   audio_input_buffer, user_speaking, speaker_segments,
                   message_queue, start_speaking_buffer_ms,
                   start_speaking_buffer_start_time>>

(***************************************************************************)
(* The environment.                                                        *)
(***************************************************************************)
EnvFrame ==
    /\ sent' = <<>>
    /\ last_event' = NoEvent
    /\ UNCHANGED <<cfgVars, listenerVars, hist,
                   routerVars, pc, closeVars, human_started,
                   marks_in_flight, now, n_down, n_up, cleanup_started,
                   audio_input_buffer_ms, audio_total_buffer_ms,
                   audio_input_buffer, user_speaking, speaker_segments,
                   message_queue, start_speaking_buffer_ms,
                   start_speaking_buffer_start_time>>

\* The human hangs up, or the provider ends the stream.
HumanDisconnects ==
    /\ human_ws = "connected"
    /\ human_ws' = "disconnected"
    /\ UNCHANGED ws_state
    /\ EnvFrame

\* The model service closes its connection.
ModelCloses ==
    /\ ws_state = "open"
    /\ ws_state' = "closed"
    /\ UNCHANGED human_ws
    /\ EnvFrame

(***************************************************************************)
(* AiCaller on its own: the iterator and receive_human_audio driven        *)
(* directly, as a caller of the class drives them.                         *)
(***************************************************************************)
HandlerEvents ==
    {SpeechStarted(UserItems[i], a) : i \in DOMAIN UserItems, a \in AudioStartMs}
    \cup {SpeechStopped, SessionUpdated}
    \cup {AudioDelta(i, b) : i \in AssistantItems, b \in RouterDeltaBytes}
    \cup {InputTranscript(UserItems[i], x) : i \in DOMAIN UserItems, x \in Transcripts}
    \cup {AudioTranscript(i, x) : i \in AssistantItems, x \in Transcripts}

\* One iteration of AiCaller.__aiter__ (caller.py 523-531).
Aiter(ev, t) ==
    /\ pc["down"] = "loop"
    /\ n_down < MaxIter
    /\ message_handler(ev, t)
    /\ now' = t
    /\ sent' = <<>>
    /\ last_event' = ev
    /\ n_down' = n_down + 1
    /\ hist' = [hist EXCEPT !.spoke = @ \/ SomeoneSpeaks(ev)]
    /\ UNCHANGED <<cfgVars, listenerVars, routerVars, pc, closeVars, humanVars,
                   ws_state,
                   cleanup_started, n_up>>

(***************************************************************************)
(* Initial states and specifications.                                      *)
(***************************************************************************)
NoEffects ==
    [body |-> 0, ws_close |-> 0, call_end |-> 0, upload |-> 0, db_update |-> 0,
     remove |-> 0]

\* AiCaller.__init__ and __aenter__, the router's __init__.
InitCommon ==
    /\ documents = <<>>
    /\ document_groups = <<>>
    /\ query_pc = "idle"
    /\ log_writes = <<>>
    /\ log_file = <<>>
    /\ log_pc = "idle"
    /\ uploaded_log = <<>>
    /\ phone_call = [end_reason |-> None, call_data |-> None]
    /\ hang_up_pc = [at |-> "idle", found |-> FALSE, requests |-> 0]
    /\ update_pc = [at |-> "idle", found |-> FALSE, reason |-> None]
    /\ ws_state = "open"
    /\ cleanup_started = FALSE
    /\ audio_input_buffer_ms = PrefixPaddingMs
    /\ audio_total_buffer_ms = 0
    /\ audio_input_buffer = <<>>
    /\ user_speaking = FALSE
    /\ speaker_segments = <<>>
    /\ message_queue = <<>>
    /\ start_speaking_buffer_start_time = NoneInt
    /\ stream_sid = None
    /\ last_ai_item_id = None
    /\ mark_queue = <<>>
    /\ mark_queue_elapsed_time = 0
    /\ inter_mark_start_time = Unassigned
    /\ hang_up_reason = NoHangUpReason
    /\ router_cleanup_started = FALSE
    /\ pc = [k \in Tasks |-> IF k = "exit" THEN "wait" ELSE "loop"]
    /\ close_pc = "idle"
    /\ close_owner = None
    /\ owner_exc = FALSE
    /\ close_arg = [k \in Tasks |-> None]
    /\ close_ret = [k \in Tasks |-> NotReturned]
    /\ post = [dial |-> 0, hangup |-> 0, rows |-> <<>>]
    /\ fx = NoEffects
    /\ human_ws = "connected"
    /\ marks_in_flight = 0
    /\ deltas = <<>>
    /\ mark_ids = <<>>
    /\ listener_taken = 0
    /\ listener_out = <<>>
    /\ hist = [kickoffs |-> 0, spoke |-> FALSE]
    /\ now = 0
    /\ sent = <<>>
    /\ last_event = NoEvent
    /\ n_down = 0
    /\ n_up = 0

\* call_stream (phone.py 408-446) for a telephony call; a browser call.
Init ==
    /\ transport \in {"telephony", "browser"}
    /\ call_type \in (IF transport = "telephony" THEN {"inbound", "outbound"}
                      ELSE {"browser"})
    /\ audio_format = (IF transport = "telephony" THEN "g711_ulaw" ELSE "pcm16")
    /\ queue_attached = (transport = "telephony")
    /\ hang_up_sound_cached \in (IF transport = "browser" THEN BOOLEAN ELSE {FALSE})
    /\ knowledge_bases = 1
    /\ listener_pc = "detached"
    /\ start_speaking_buffer_ms =
            (IF transport = "telephony" THEN KickoffBufferMs ELSE NoneInt)
    /\ human_started = FALSE
    /\ InitCommon

Next ==
    \/ \E ev \in RouterEvents : \E t \in DownClock(ev) : SendToHuman(ev, t, "ok")
    \/ DownlinkConnectionClosed
    \/ BrowserSocketClosed
    \/ \E nbytes \in {160} : \E t \in AudioClock : ReceiveMedia(nbytes, t)
    \/ \E ok \in BOOLEAN : \E t \in (IF ok THEN ClosedOkClock ELSE {now}) :
            ReceiveMediaClosed(160, ok, t)
    \/ ReceiveStart
    \/ \E t \in MarkClock : ReceiveMark(t)
    \/ \E t \in TruncateClock(Playback) : ReceiveHangup(t)
    \/ \E ok \in BOOLEAN : \E t \in (IF ok THEN ClosedOkClock ELSE {now}) :
            StreamEnd(ok, t)
    \/ HumanDisconnects
    \/ ModelCloses
    \/ CloseWsClosed
    \/ CloseLogsFlushed
    \/ CloseUploaded
    \/ CloseUploadFailed
    \/ CloseRecordUpdated
    \/ CloseRemoveFailed
    \/ AexitStack
    \/ AexitClose

Spec == Init /\ [][Next]_vars

\* The steps that wait for nothing but the program itself or a collaborator
\* that answers: the suspension points of close() and of __aexit__.
CloseStep ==
    \/ CloseWsClosed
    \/ CloseLogsFlushed
    \/ CloseUploaded
    \/ CloseUploadFailed
    \/ CloseRecordUpdated
    \/ CloseRemoveFailed
    \/ AexitStack
    \/ AexitClose

\* Spec with the scheduling of the event loop: a task that can run does run.
\* The endpoint echoes every mark it was sent for as long as it is
\* connected; a receive that has failed is noticed; close() goes on.  Nothing
\* obliges the human to send audio or to hang up, nor the model to send an
\* event or to close.
SpecLive ==
    /\ Spec
    /\ WF_vars(\E t \in MarkClock : ReceiveMark(t))
    /\ WF_vars(DownlinkConnectionClosed)
    /\ WF_vars(\E ok \in BOOLEAN : \E t \in (IF ok THEN ClosedOkClock ELSE {now}) :
                    StreamEnd(ok, t))
    /\ WF_vars(CloseStep)

(***************************************************************************)
(* The kickoff: the iterator and receive_human_audio while the wall clock  *)
(* runs on its own.  Time passes whether or not anything arrives; nothing  *)
(* obliges the human endpoint or the model service to send.                *)
(***************************************************************************)
KickoffEvents ==
    {SessionUpdated, SpeechStarted(UserItems[1], 320)}
    \cup {AudioDelta("a1", b) : b \in RouterDeltaBytes}

\* The wall clock advances while both tasks wait for their next message.
Tick ==
    /\ now < MaxNow
    /\ now' \in ClockReads(now)
    /\ sent' = <<>>
    /\ last_event' = NoEvent
    /\ UNCHANGED <<cfgVars, listenerVars, hist, aiVars, routerVars, pc,
                   closeVars, humanVars, n_down, n_up>>

InitKickoff ==
    /\ transport = "none"
    /\ call_type = "none"
    /\ audio_format = "pcm16"
    /\ queue_attached = FALSE
    /\ hang_up_sound_cached = FALSE
    /\ knowledge_bases = 0
    /\ listener_pc = "detached"
    /\ start_speaking_buffer_ms \in {KickoffBufferMs, NoneInt}
    /\ human_started = TRUE
    /\ InitCommon

NextKickoff ==
    \/ \E ev \in KickoffEvents : \E t \in ClockReads(now) \cup {now} : Aiter(ev, t)
    \/ \E t \in ClockReads(now) \cup {now} : ReceiveMedia(160, t)
    \/ Tick

SpecKickoff == InitKickoff /\ [][NextKickoff]_vars /\ WF_vars(Tick)

(***************************************************************************)
(* The listener: listen_in_stream (phone.py 466-487) reads the queue of    *)
(* one telephony call.  One subscriber per call.                           *)
(***************************************************************************)
\* AiMessage.serialized (caller.py 111-146): audio of a g711_ulaw call is
\* expanded to 16-bit PCM, and a speaker message dumps the segment objects
\* of its list as they are when the line is produced.
serialized(m) ==
    CASE m.type = "audio" ->
            [type |-> "audio", src |-> "queue", segments |-> <<>>,
             bytes |-> IF m.audio_format = "g711_ulaw" THEN 2 * m.bytes ELSE m.bytes]
      [] m.type = "speaker" ->
            [type |-> "speaker", src |-> "queue", segments |-> SubSeq(speaker_segments, 1, m.count),
             bytes |-> 0]
      [] OTHER ->
            [type |-> m.type, src |-> "queue", segments |-> <<>>, bytes |-> 0]
ToneLine == [type |-> "audio", src |-> "tone", segments |-> <<>>, bytes |-> 0]

\* (a stream that stops at the sentinel without passing it on)
ListenerYieldsUntilEnd(m, tone) ==
    IF m.type = "call_end" THEN <<>> ELSE <<serialized(m)>>

\* What one turn of the loop yields for the message it got: before the
\* call_end line the hang-up tone, when that sound is cached.
ListenerYields(m, tone) ==
    (IF m.type = "call_end" /\ tone THEN <<ToneLine>> ELSE <<>>) \o <<serialized(m)>>

\* GET /listen-in-stream/{phone_call_id}: the stream starts to read the queue
\* of the call, which holds every message added since the call began.
ListenIn ==
    /\ queue_attached
    /\ listener_pc = "detached"
    /\ listener_pc' = "get"
    /\ sent' = <<>>
    /\ last_event' = NoEvent
    /\ UNCHANGED <<cfgVars, listener_taken, listener_out, hist, aiVars,
                   routerVars, pc, closeVars, humanVars, now, n_down, n_up>>

\* One turn of "while True": queue.get() returns the oldest message not yet
\* taken, the turn yields its lines and leaves the loop after call_end.
ListenerGet(tone) ==
    /\ listener_pc = "get"
    /\ listener_taken < Len(message_queue)
    /\ LET m == message_queue[listener_taken + 1]
       IN  /\ listener_out' = listener_out \o ListenerYields(m, tone)
           /\ listener_pc' = IF m.type = "call_end" THEN "closed" ELSE "get"
    /\ listener_taken' = listener_taken + 1
    /\ sent' = <<>>
    /\ last_event' = NoEvent
    /\ UNCHANGED <<cfgVars, hist, aiVars, routerVars, pc, closeVars, humanVars,
                   now, n_down, n_up>>

ListenerEvents ==
    {SpeechStarted(UserItems[1], 20), SpeechStopped,
     InputTranscript(UserItems[1], "hello"),
     AudioDelta("a1", 1600),
     FunctionCall("hang_up", "answering_machine")}

InitListener ==
    /\ transport = "telephony"
    /\ call_type = "outbound"
    /\ audio_format = "g711_ulaw"
    /\ queue_attached = TRUE
    /\ hang_up_sound_cached = FALSE
    /\ knowledge_bases = 0
    /\ listener_pc = "detached"
    /\ start_speaking_buffer_ms = KickoffBufferMs
    /\ human_started = FALSE
    /\ InitCommon

NextListener ==
    \/ \E ev \in ListenerEvents : \E t \in DownClock(ev) : SendToHuman(ev, t, "ok")
    \/ DownlinkConnectionClosed
    \/ ReceiveStart
    \/ \E t \in AudioClock : ReceiveMedia(160, t)
    \/ \E t \in MarkClock : ReceiveMark(t)
    \/ \E ok \in BOOLEAN : \E t \in (IF ok THEN ClosedOkClock ELSE {now}) :
            StreamEnd(ok, t)
    \/ HumanDisconnects
    \/ ModelCloses
    \/ CloseStep
    \/ ListenIn
    \/ \E tone \in BOOLEAN : ListenerGet(tone)

\* While the subscriber stays connected, queue.get() returns whenever a
\* message is waiting.
SpecListener ==
    /\ InitListener
    /\ [][NextListener]_vars
    /\ WF_vars(\E tone \in BOOLEAN : ListenerGet(tone))

(***************************************************************************)
(* The tool calls: a routed call whose model service calls every declared  *)
(* tool, with readable and unreadable arguments, and whose peers may send  *)
(* what cannot be parsed.                                                  *)
(***************************************************************************)
ToolEvents ==
    {FunctionCall("hang_up", a) : a \in {"answering_machine", "end_of_call", InvalidArgs}}
    \cup {FunctionCall("cancel_hang_up", None)}
    \cup {FunctionCall("query_documents", a) : a \in {"opening hours", InvalidArgs}}
    \cup {FunctionCall("send_text_message", "see you then")}
    \cup {FunctionCall("transfer_call", l) : l \in {"sales", "nobody", InvalidArgs}}
    \cup {FunctionCall("enter_keypad", "1")}
    \cup {FunctionCall("no_such_tool", None)}
    \cup {AudioDelta("a1", b) : b \in RouterDeltaBytes}

InitTools ==
    /\ transport \in {"telephony", "browser"}
    /\ call_type = (IF transport = "telephony" THEN "outbound" ELSE "browser")
    /\ audio_format = (IF transport = "telephony" THEN "g711_ulaw" ELSE "pcm16")
    /\ queue_attached = (transport = "telephony")
    /\ hang_up_sound_cached \in (IF transport = "browser" THEN BOOLEAN ELSE {FALSE})
    /\ knowledge_bases \in {0, 1}
    /\ listener_pc = "detached"
    /\ start_speaking_buffer_ms =
            (IF transport = "telephony" THEN KickoffBufferMs ELSE NoneInt)
    /\ human_started = FALSE
    /\ InitCommon

NextTools ==
    \/ \E ev \in ToolEvents : \E t \in DownClock(ev) : \E ext \in ExtOutcomes(ev) :
            SendToHuman(ev, t, ext)
    \/ \E res \in LookupOutcomes : QueryDocumentsReturns(res)
    \/ ReceiveMalformedEvent
    \/ ReceiveMalformedFrame
    \/ DownlinkConnectionClosed
    \/ BrowserSocketClosed
    \/ ReceiveStart
    \/ \E t \in MarkClock : ReceiveMark(t)
    \/ \E ok \in BOOLEAN : \E t \in (IF ok THEN ClosedOkClock ELSE {now}) :
            StreamEnd(ok, t)
    \/ HumanDisconnects
    \/ ModelCloses
    \/ CloseStep

SpecTools == InitTools /\ [][NextTools]_vars

(***************************************************************************)
(* The session log: send_message and _message_handler each start a        *)
(* _log_message task, close() awaits the tasks of _log_tasks and then      *)
(* reads the file (caller.py 266-274, 302-305, 376-377, 485-496).          *)
(***************************************************************************)
MaxLogWrites == 3

LogWrite(tracked) == [tracked |-> tracked, done |-> FALSE]
Pending == {i \in DOMAIN log_writes : ~log_writes[i].done}
Tracked == {i \in DOMAIN log_writes : log_writes[i].tracked}

LogFrame ==
    UNCHANGED <<transport, call_type, audio_format, queue_attached,
                hang_up_sound_cached, knowledge_bases, queryVars, recordVars,
                aiVars, routerVars, pc, closeVars, humanVars, listenerVars,
                hist, envVars>>

\* send_message: the task is created and appended to _log_tasks.
SendMessageLogs ==
    /\ log_pc = "idle"
    /\ Len(log_writes) < MaxLogWrites
    /\ log_writes' = Append(log_writes, LogWrite(TRUE))
    /\ UNCHANGED <<log_file, log_pc, uploaded_log>>
    /\ LogFrame

\* _message_handler: the task is created and its handle dropped.
MessageHandlerLogs ==
    /\ log_pc = "idle"
    /\ Len(log_writes) < MaxLogWrites
    /\ log_writes' = Append(log_writes, LogWrite(FALSE))
    /\ UNCHANGED <<log_file, log_pc, uploaded_log>>
    /\ LogFrame

\* A _log_message task has opened the file, appended its entry and closed
\* it; each task goes through the thread pool on its own.
LogMessageDone ==
    /\ log_pc # "uploaded"
    /\ \E i \in Pending :
          /\ log_writes' = [log_writes EXCEPT ![i].done = TRUE]
          /\ log_file' = Append(log_file, i)
    /\ UNCHANGED <<log_pc, uploaded_log>>
    /\ LogFrame

\* close() is entered and reaches the gather of _log_tasks.
CloseReachesGather ==
    /\ log_pc = "idle"
    /\ log_pc' = "gather"
    /\ UNCHANGED <<log_writes, log_file, uploaded_log>>
    /\ LogFrame

\* The gather returns: every task of _log_tasks is done.
CloseGathered ==
    /\ log_pc = "gather"
    /\ Tracked \cap Pending = {}
    /\ log_pc' = "read"
    /\ UNCHANGED <<log_writes, log_file, uploaded_log>>
    /\ LogFrame

\* The file is read, zipped and uploaded.
CloseReadsLog ==
    /\ log_pc = "read"
    /\ uploaded_log' = log_file
    /\ log_pc' = "uploaded"
    /\ UNCHANGED <<log_writes, log_file>>
    /\ LogFrame

InitLog ==
    /\ transport = "none"
    /\ call_type = "none"
    /\ audio_format = "pcm16"
    /\ queue_attached = FALSE
    /\ hang_up_sound_cached = FALSE
    /\ knowledge_bases = 0
    /\ listener_pc = "detached"
    /\ start_speaking_buffer_ms = NoneInt
    /\ human_started = FALSE
    /\ InitCommon

NextLog ==
    \/ SendMessageLogs
    \/ MessageHandlerLogs
    \/ LogMessageDone
    \/ CloseReachesGather
    \/ CloseGathered
    \/ CloseReadsLog

SpecLog == InitLog /\ [][NextLog]_vars

(***************************************************************************)
(* The call record: update_phone_call (db/api.py 97-120) looks for a       *)
(* stored end reason and then updates the row; POST /hang-up (phone.py     *)
(* 494-519) and close() (caller.py 510-516) each run it in a session of    *)
(* their own.  A row written in a session is read by the other once the    *)
(* session has committed.                                                  *)
(***************************************************************************)
PhoneCallEndReason ==
    {"end_of_call_bot", "voice_mail_bot", "user_hangup", "unknown",
     "listener_hangup", "transferred"}
LogPath == "s3://clinicontact/logs/phone_call_id.zip"
MaxHangUpRequests == 2

\* The select of update_phone_call: whether an end reason already exists.
EndReasonStored(row) == row.end_reason # None

\* The row after the update with the payload built from what the select
\* returned.
update_phone_call(row, call_data, reason, found) ==
    [end_reason |-> IF found THEN row.end_reason ELSE reason,
     call_data |-> IF call_data # None THEN call_data ELSE row.call_data]

RecordFrame ==
    UNCHANGED <<transport, call_type, audio_format, queue_attached,
                hang_up_sound_cached, knowledge_bases, queryVars, logVars,
                aiVars, routerVars, pc, closeVars, humanVars, listenerVars,
                hist, envVars>>

\* A hang_up request reads the call and answers 400 when it has call_data.
HangUpReadsCall ==
    /\ hang_up_pc.at \in {"idle", "done", "rejected"}
    /\ hang_up_pc.requests < MaxHangUpRequests
    /\ hang_up_pc' = [hang_up_pc EXCEPT
            !.at = IF phone_call.call_data # None THEN "rejected" ELSE "read",
            !.requests = @ + 1]
    /\ UNCHANGED <<phone_call, update_pc>>
    /\ RecordFrame

\* hang_up in update_phone_call: the select.
HangUpSelects ==
    /\ hang_up_pc.at = "read"
    /\ hang_up_pc' = [hang_up_pc EXCEPT !.at = "selected",
                                         !.found = EndReasonStored(phone_call)]
    /\ UNCHANGED <<phone_call, update_pc>>
    /\ RecordFrame

\* hang_up in update_phone_call: the update, and the commit that follows.
HangUpUpdates ==
    /\ hang_up_pc.at = "selected"
    /\ phone_call' = update_phone_call(phone_call, None, "listener_hangup",
                                       hang_up_pc.found)
    /\ hang_up_pc' = [hang_up_pc EXCEPT !.at = "done"]
    /\ UNCHANGED update_pc
    /\ RecordFrame

\* close() in update_phone_call with the reason it was called with: the
\* select.
CloseSelects(reason) ==
    /\ update_pc.at = "idle"
    /\ update_pc' = [at |-> "selected", found |-> EndReasonStored(phone_call),
                     reason |-> reason]
    /\ UNCHANGED <<phone_call, hang_up_pc>>
    /\ RecordFrame

\* close() in update_phone_call: the update, committed when the session
\* scope is left.
CloseUpdates ==
    /\ update_pc.at = "selected"
    /\ phone_call' = update_phone_call(phone_call, LogPath, update_pc.reason,
                                       update_pc.found)
    /\ update_pc' = [update_pc EXCEPT !.at = "done"]
    /\ UNCHANGED hang_up_pc
    /\ RecordFrame

InitRecord ==
    /\ transport = "telephony"
    /\ call_type = "outbound"
    /\ audio_format = "g711_ulaw"
    /\ queue_attached = TRUE
    /\ hang_up_sound_cached = FALSE
    /\ knowledge_bases = 0
    /\ listener_pc = "detached"
    /\ start_speaking_buffer_ms = NoneInt
    /\ human_started = FALSE
    /\ InitCommon

NextRecord ==
    \/ HangUpReadsCall
    \/ HangUpSelects
    \/ HangUpUpdates
    \/ \E reason \in PhoneCallEndReason \ {"listener_hangup"} : CloseSelects(reason)
    \/ CloseUpdates

SpecRecord == InitRecord /\ [][NextRecord]_vars

(***************************************************************************)
(* query_documents: the documents of the knowledge bases are sorted by     *)
(* token count and packed into groups (document_query.py 119-164).         *)
(***************************************************************************)
MAX_TOKEN_AMOUNT == 30000
MaxDocs == 3
TokenCounts == {0, 10000, 12000, 15000, 18000, 30000, 31000}

\* A document is (doc_name, doc_text, token_count); the text plays no part
\* in the grouping and the name is the document's place in the fetched list.
Document(name, token_count) == [name |-> name, token_count |-> token_count]

\* sorted(documents, key=lambda x: x[2]): stable, ascending by token count.
RECURSIVE insert_by_token_count(_, _)
insert_by_token_count(doc, docs) ==
    IF docs = <<>> THEN <<doc>>
    ELSE IF docs[Len(docs)].token_count <= doc.token_count
         THEN Append(docs, doc)
         ELSE Append(insert_by_token_count(doc, SubSeq(docs, 1, Len(docs) - 1)),
                     docs[Len(docs)])

RECURSIVE sorted(_)
sorted(docs) ==
    IF docs = <<>> THEN <<>>
    ELSE insert_by_token_count(docs[Len(docs)], sorted(SubSeq(docs, 1, Len(docs) - 1)))

\* The loop of _group_documents_by_token_count (document_query.py 126-136):
\* the documents still to come, the groups closed so far, the open group and
\* its token count.  A group holds the names of its documents.
RECURSIVE group_loop(_, _, _, _, _)
group_loop(docs, max_tokens, groups, current_group, current_token_count) ==
    IF docs = <<>>
    THEN IF current_group # <<>> THEN Append(groups, current_group) ELSE groups
    ELSE LET doc == Head(docs)
         IN  IF current_token_count + doc.token_count > max_tokens /\ current_group # <<>>
             THEN group_loop(Tail(docs), max_tokens, Append(groups, current_group),
                             <<doc.name>>, doc.token_count)
             ELSE group_loop(Tail(docs), max_tokens, groups,
                             Append(current_group, doc.name),
                             current_token_count + doc.token_count)

\* The same loop with no room in any group: every document alone.
group_each_alone(docs, max_tokens) ==
    group_loop(docs, 0, <<>>, <<>>, 0)

_group_documents_by_token_count(docs, max_tokens) ==
    group_loop(docs, max_tokens, <<>>, <<>>, 0)

\* _get_documents returns the documents of the knowledge bases, in the
\* order of the query result (document_query.py 148-150).
GetDocuments ==
    /\ query_pc = "idle"
    /\ \E n \in 0..MaxDocs : \E counts \in [1..n -> TokenCounts] :
            documents' = [i \in 1..n |-> Document(i, counts[i])]
    /\ query_pc' = "fetched"
    /\ UNCHANGED <<transport, call_type, audio_format, queue_attached,
                   hang_up_sound_cached, knowledge_bases, document_groups, logVars,
                   recordVars>>
    /\ UNCHANGED <<aiVars, routerVars, pc, closeVars, humanVars, listenerVars,
                   hist, envVars>>

\* query_documents from the sort to the groups (document_query.py 151-155).
GroupDocuments ==
    /\ query_pc = "fetched"
    /\ documents' = sorted(documents)
    /\ document_groups' = _group_documents_by_token_count(documents', MAX_TOKEN_AMOUNT)
    /\ query_pc' = "grouped"
    /\ UNCHANGED <<transport, call_type, audio_format, queue_attached,
                   hang_up_sound_cached, knowledge_bases, logVars, recordVars>>
    /\ UNCHANGED <<aiVars, routerVars, pc, closeVars, humanVars, listenerVars,
                   hist, envVars>>

InitQuery ==
    /\ transport = "none"
    /\ call_type = "none"
    /\ audio_format = "pcm16"
    /\ queue_attached = FALSE
    /\ hang_up_sound_cached = FALSE
    /\ knowledge_bases = 1
    /\ listener_pc = "detached"
    /\ start_speaking_buffer_ms = NoneInt
    /\ human_started = FALSE
    /\ InitCommon

NextQuery ==
    \/ GetDocuments
    \/ GroupDocuments

SpecQuery == InitQuery /\ [][NextQuery]_vars

(***************************************************************************)
(* receive_human_audio alone, for every audio format and frames of whole   *)
(* and of broken numbers of milliseconds.                                  *)
(***************************************************************************)
AudioFormats == {"pcm16", "g711_ulaw", "g711_alaw"}
FrameSizes == {0, 1, 7, 8, 47, 48, 160, 161, 960}

InitAudio ==
    /\ transport = "none"
    /\ call_type = "none"
    /\ audio_format \in AudioFormats
    /\ queue_attached = FALSE
    /\ hang_up_sound_cached = FALSE
    /\ knowledge_bases = 0
    /\ listener_pc = "detached"
    /\ start_speaking_buffer_ms = NoneInt
    /\ human_started = TRUE
    /\ InitCommon

NextAudio ==
    \E nbytes \in FrameSizes : \E t \in AudioClock : ReceiveMedia(nbytes, t)

SpecAudio == InitAudio /\ [][NextAudio]_vars

(***************************************************************************)
(* A telephony call under way: the start frame has been handled and one    *)
(* chunk of item a1 has been forwarded and is not yet acknowledged; events *)
(* and frames are counted from here.                                       *)
(***************************************************************************)
InitMarks ==
    /\ transport = "telephony"
    /\ call_type = "outbound"
    /\ audio_format = "g711_ulaw"
    /\ queue_attached = TRUE
    /\ hang_up_sound_cached = FALSE
    /\ knowledge_bases = 1
    /\ documents = <<>>
    /\ document_groups = <<>>
    /\ query_pc = "idle"
    /\ log_writes = <<>>
    /\ log_file = <<>>
    /\ log_pc = "idle"
    /\ uploaded_log = <<>>
    /\ phone_call = [end_reason |-> None, call_data |-> None]
    /\ hang_up_pc = [at |-> "idle", found |-> FALSE, requests |-> 0]
    /\ update_pc = [at |-> "idle", found |-> FALSE, reason |-> None]
    /\ ws_state = "open"
    /\ cleanup_started = FALSE
    /\ audio_input_buffer_ms = PrefixPaddingMs
    /\ audio_total_buffer_ms = 200
    /\ audio_input_buffer = <<>>
    /\ user_speaking = FALSE
    /\ speaker_segments = <<>>
    /\ message_queue = <<QAudio(1600)>>
    /\ start_speaking_buffer_ms = NoneInt
    /\ start_speaking_buffer_start_time = NoneInt
    /\ stream_sid = StreamSid
    /\ last_ai_item_id = "a1"
    /\ mark_queue = <<200>>
    /\ mark_queue_elapsed_time = 0
    /\ inter_mark_start_time = NoneInt
    /\ deltas = <<[item_id |-> "a1", ms |-> 200, fate |-> "pending"]>>
    /\ mark_ids = <<1>>
    /\ hang_up_reason = NoHangUpReason
    /\ router_cleanup_started = FALSE
    /\ pc = [k \in Tasks |-> IF k = "exit" THEN "wait" ELSE "loop"]
    /\ close_pc = "idle"
    /\ close_owner = None
    /\ owner_exc = FALSE
    /\ close_arg = [k \in Tasks |-> None]
    /\ close_ret = [k \in Tasks |-> NotReturned]
    /\ post = [dial |-> 0, hangup |-> 0, rows |-> <<>>]
    /\ fx = NoEffects
    /\ human_ws = "connected"
    /\ human_started = TRUE
    /\ marks_in_flight = 1
    /\ listener_pc = "detached"
    /\ listener_taken = 0
    /\ listener_out = <<>>
    /\ hist = [kickoffs |-> 0, spoke |-> TRUE]
    /\ now = 0
    /\ sent = <<>>
    /\ last_event = NoEvent
    /\ n_down = 0
    /\ n_up = 0

MarkEvents ==
    {AudioDelta(i, 1600) : i \in AssistantItems}
    \cup {SpeechStarted(UserItems[1], 320)}
    \cup {FunctionCall("hang_up", "end_of_call"), FunctionCall("transfer_call", "sales"),
          FunctionCall("cancel_hang_up", None)}

NextMarks ==
    \/ \E ev \in MarkEvents : \E t \in DownClock(ev) : SendToHuman(ev, t, "ok")
    \/ \E t \in MarkClock : ReceiveMark(t)
    \/ \E t \in AudioClock : ReceiveMedia(160, t)
    \/ \E ok \in BOOLEAN : \E t \in (IF ok THEN ClosedOkClock ELSE {now}) :
            StreamEnd(ok, t)
    \/ HumanDisconnects
    \/ DownlinkConnectionClosed
    \/ ModelCloses
    \/ CloseStep
    \/ AexitStack
    \/ AexitClose

SpecMarks == InitMarks /\ [][NextMarks]_vars

InitHandler ==
    /\ transport = "none"
    /\ call_type = "none"
    /\ audio_format \in {"g711_ulaw", "pcm16"}
    /\ queue_attached \in BOOLEAN
    /\ hang_up_sound_cached = FALSE
    /\ knowledge_bases = 0
    /\ listener_pc = "detached"
    /\ start_speaking_buffer_ms \in {KickoffBufferMs, NoneInt}
    /\ human_started = TRUE
    /\ InitCommon

NextHandler ==
    \/ \E ev \in HandlerEvents : \E t \in HandlerClock(ev) : Aiter(ev, t)
    \/ \E nbytes \in HumanFrameBytes : \E t \in AudioClock : ReceiveMedia(nbytes, t)

SpecHandler == InitHandler /\ [][NextHandler]_vars

(***************************************************************************)
(* The handler of AiCaller fed any event the connection can deliver: the   *)
(* transcript events name any item, whatever the speaker of its segment.   *)
(***************************************************************************)
SegmentEvents ==
    {SpeechStarted(UserItems[1], 320), SpeechStopped}
    \cup {AudioDelta("a1", b) : b \in RouterDeltaBytes}
    \cup {InputTranscript(i, x) : i \in {UserItems[1], "a1"}, x \in Transcripts}
    \cup {AudioTranscript(i, x) : i \in {UserItems[1], "a1"}, x \in Transcripts}

NextSegments ==
    \E ev \in SegmentEvents : \E t \in HandlerClock(ev) : Aiter(ev, t)

SpecSegments == InitHandler /\ [][NextSegments]_vars

(***************************************************************************)
(* Properties of the speaker-segment list and of the pre-speech buffer,    *)
(* checked under SpecHandler.                                              *)
(***************************************************************************)
Placeholders == {i \in DOMAIN speaker_segments : speaker_segments[i].item_id = ""}

\* C8: in every reachable state at most one speaker segment has an empty
\* item_id, that segment is the last of the list, and it is an Assistant
\* segment.
C8_PlaceholderIsTrailingAssistant ==
    /\ Cardinality(Placeholders) <= 1
    /\ \A i \in Placeholders :
            /\ i = Len(speaker_segments)
            /\ speaker_segments[i].speaker = "Assistant"

\* C9: every User segment that has a successor has a timestamp less than or
\* equal to the timestamp of its successor.
C9_UserTimestampsOrdered ==
    \A i \in DOMAIN speaker_segments :
        (i < Len(speaker_segments) /\ speaker_segments[i].speaker = "User")
            => speaker_segments[i].timestamp <= speaker_segments[i + 1].timestamp

\* C10: a step that handles speech_started adds to total_ms, and pushes to
\* the listener after the speaker message, exactly the pre-speech entries
\* whose cumulative input ms is at least the reported audio_start_ms, in
\* their order, and leaves the pre-speech buffer empty.
C10_FlushFromAudioStart ==
    [][(last_event'.type = "input_audio_buffer.speech_started"
            /\ n_down' = n_down + 1)
        => LET start == last_event'.audio_start_ms
               AtOrAfter(e) == e.cum >= start
               kept == SelectSeq(audio_input_buffer, AtOrAfter)
           IN  /\ audio_total_buffer_ms' = audio_total_buffer_ms
                        + SumSeq([i \in DOMAIN kept |-> kept[i].ms])
               /\ message_queue' =
                        IF queue_attached
                        THEN message_queue \o <<QSpeaker(Len(speaker_segments'))>>
                                \o [i \in DOMAIN kept |-> QAudio(kept[i].audio)]
                        ELSE message_queue
               /\ audio_input_buffer' = <<>>]_vars

\* A speech_started, the first event of the call, has flushed part of the
\* buffered input and discarded the rest.
C10_Witness ==
    /\ last_event.type = "input_audio_buffer.speech_started"
    /\ n_down = 1
    /\ audio_input_buffer = <<>>
    /\ audio_total_buffer_ms > 0
    /\ audio_total_buffer_ms < audio_input_buffer_ms - PrefixPaddingMs
    /\ queue_attached
    /\ Len(message_queue) > 1

(***************************************************************************)
(* Properties of the termination routine, checked under Spec.              *)
(***************************************************************************)
Over(k) == pc[k] \in {"done", "raised"}
HasReturned(k) == close_ret[k] # NotReturned
EffectNames == {"body", "ws_close", "call_end", "upload", "db_update", "remove"}

\* C1: over every interleaving of the uplink, the downlink and the context
\* manager's exit, the body of close() is entered once and no more: no
\* effect (closing the model connection, call_end, the upload, the update
\* of the call record, the removal of the log) is performed twice, a call
\* whose three tasks are over has entered the body, and a body that ran to
\* its end has performed each effect exactly once.
C1_CloseBodyOnce ==
    /\ \A e \in EffectNames : fx[e] <= 1
    /\ (\A k \in Tasks : Over(k)) => fx.body = 1
    /\ cleanup_started <=> fx.body = 1
    /\ close_pc = "returned" =>
            fx = [body |-> 1, ws_close |-> 1,
                  call_end |-> IF queue_attached THEN 1 ELSE 0,
                  upload |-> 1, db_update |-> 1, remove |-> 1]

\* All three tasks have invoked close(); the body ran once, to its end, and
\* the two later entrants returned.
C1_Witness ==
    /\ \A k \in Tasks : close_arg[k] # None /\ HasReturned(k)
    /\ close_pc = "returned"
    /\ fx.body = 1
    /\ fx.upload = 1

\* C2: every invocation of close() that returns, returns the pair that the
\* first invocation returns.
C2_SameReturnAsFirst ==
    (close_owner # None /\ HasReturned(close_owner))
        => \A k \in Tasks : HasReturned(k) => close_ret[k] = close_ret[close_owner]

\* C3: once the termination cause is set, a step other than the handling of
\* cancel_hang_up leaves it as it is.
C3_FirstWriterWins ==
    [][(hang_up_reason.reason # None /\ last_event'.name # "cancel_hang_up")
            => hang_up_reason' = hang_up_reason]_vars

(***************************************************************************)
(* Properties of the playback bookkeeping, checked under Spec.             *)
(***************************************************************************)
Types(out) == [i \in DOMAIN out |-> out[i].type]
TruncatesIn(out) == {i \in DOMAIN out : out[i].type = "conversation.item.truncate"}
ClearsIn(out) == {i \in DOMAIN out : out[i].type = "clear"}
IsReset ==
    /\ last_ai_item_id = None
    /\ mark_queue_elapsed_time = 0
    /\ inter_mark_start_time = NoneInt
\* The downlink handles speech_started in this step.
BargeIn ==
    /\ last_event'.type = "input_audio_buffer.speech_started"
    /\ n_down' = n_down + 1

\* C4: a truncate that a step sends names last_ai_item_id, and its
\* audio_end_ms is mark_queue_elapsed_time plus, when inter_mark_start_time
\* is set, the smaller of the time since inter_mark_start_time and the
\* duration at the head of the MarkQueue (the time itself when the queue is
\* empty), and plus nothing when inter_mark_start_time is unset.
C4_TruncateOffset ==
    [][\A i \in TruncatesIn(sent') :
          /\ sent'[i].item_id = last_ai_item_id
          /\ sent'[i].ms = mark_queue_elapsed_time
                + (IF inter_mark_start_time = NoneInt THEN 0
                   ELSE IF mark_queue = <<>> THEN now' - inter_mark_start_time
                   ELSE Min(now' - inter_mark_start_time, Head(mark_queue)))]_vars

\* 200 ms acknowledged, a chunk of 200 ms pending, 50 ms since the last
\* acknowledgment: the truncate just sent says 250.
C4_Witness ==
    /\ \E i \in TruncatesIn(sent) : sent[i].ms = 250
    /\ mark_queue # <<>>
    /\ Head(mark_queue) = 200
    /\ \E i \in DOMAIN deltas : deltas[i].fate = "acked" /\ deltas[i].ms = 200
    /\ inter_mark_start_time # NoneInt
    /\ now - inter_mark_start_time = 50

\* C5: when the call is over and the endpoint has echoed every mark it was
\* sent, every delta that was forwarded to the human has been acknowledged
\* by a mark, or is accounted for by a truncate of its item whose
\* audio_end_ms is at most what was forwarded of that item.
C5_EveryDeltaAccounted ==
    (Over("up") /\ Over("down") /\ mark_queue = <<>> /\ marks_in_flight = 0)
        => \A i \in DOMAIN deltas : deltas[i].fate \in {"acked", "truncated"}

\* C6, as stated: a barge-in with a non-empty MarkQueue sends exactly one
\* truncate and then exactly one clear, and resets the playback state.
C6_TruncateThenClear ==
    [][(BargeIn /\ mark_queue # <<>>)
        => /\ Types(sent') = <<"conversation.item.truncate", "clear">>
           /\ mark_queue' = <<>>
           /\ IsReset']_vars

\* C6, amended: a barge-in with a non-empty MarkQueue sends a truncate iff
\* last_ai_item_id is set.  When the sends succeed (the model connection is
\* open if a truncate is due, the human endpoint is connected) it sends
\* that truncate, if any, and then exactly one clear, and nothing else, and
\* resets the playback state; otherwise it sends no clear and the downlink
\* loop is left.
C6_TruncateIfItemThenClear ==
    [][(BargeIn /\ mark_queue # <<>>)
        => IF (last_ai_item_id = None \/ ws_state = "open") /\ human_ws = "connected"
           THEN /\ Types(sent') =
                      (IF last_ai_item_id # None
                       THEN <<"conversation.item.truncate">> ELSE <<>>) \o <<"clear">>
                /\ mark_queue' = <<>>
                /\ IsReset'
                /\ pc'["down"] = "loop"
           ELSE /\ ClearsIn(sent') = {}
                /\ Cardinality(TruncatesIn(sent')) <= 1
                /\ pc'["down"] # "loop"]_vars

\* A barge-in has just sent a truncate and then a clear.
C6_Witness ==
    /\ last_event.type = "input_audio_buffer.speech_started"
    /\ Types(sent) = <<"conversation.item.truncate", "clear">>
    /\ mark_queue = <<>>
    /\ IsReset
    /\ \E i \in DOMAIN deltas : deltas[i].fate = "truncated"

\* C7: a barge-in with an empty MarkQueue sends nothing (no truncate, no
\* clear), resets the playback state and stays in the loop.
C7_QuietReset ==
    [][(BargeIn /\ mark_queue = <<>>)
        => /\ sent' = <<>>
           /\ mark_queue' = <<>>
           /\ IsReset'
           /\ pc'["down"] = "loop"]_vars

\* A barge-in after the only delta was acknowledged: nothing was sent and
\* the item is forgotten.
C7_Witness ==
    /\ last_event.type = "input_audio_buffer.speech_started"
    /\ n_down = 2
    /\ sent = <<>>
    /\ IsReset
    /\ Len(deltas) = 1
    /\ deltas[1].fate = "acked"
    /\ pc["down"] = "loop"

(***************************************************************************)
(* Properties of the tool dispatch, checked under Spec and SpecLive.       *)
(***************************************************************************)
\* The termination routine has been entered with cause r.
EnteredWith(r) == close_owner # None /\ close_arg[close_owner] = r

\* The downlink has just dispatched the tool call name(arg).
Dispatched(name, arg) ==
    /\ last_event.type = "response.function_call_arguments.done"
    /\ last_event.name = name
    /\ last_event.arg = arg

\* C11: on a telephony call, once hang_up with reason end_of_call has been
\* dispatched (the termination routine not yet entered), the termination
\* routine is eventually entered with cause end_of_call_bot, every mark that
\* was sent being acknowledged in the end, also when the MarkQueue is empty
\* at the dispatch.  Runs in which the human hangs up or the model connection
\* closes are set aside: they end the call on their own account.
C11_HangUpEventuallyTerminates ==
    (/\ transport = "telephony"
     /\ Dispatched("hang_up", "end_of_call")
     /\ ~cleanup_started)
        ~> \/ EnteredWith("end_of_call_bot")
           \/ human_ws = "disconnected"
           \/ ws_state # "open"

MediaIn(out) == {i \in DOMAIN out : out[i].type = "media"}

\* C12: when hang_up with reason answering_machine is dispatched while the
\* MarkQueue is empty (the termination routine not yet entered), that step
\* leaves the downlink loop and enters the termination routine with cause
\* voice_mail_bot, and neither that step nor any step taken while the cause
\* is voice_mail_bot forwards an audio chunk to the human; on the telephony
\* and on the browser transport.
C12_VoiceMailEndsAtOnce ==
    [][/\ (/\ Dispatched("hang_up", "answering_machine")'
           /\ n_down' = n_down + 1
           /\ mark_queue = <<>>
           /\ ~cleanup_started)
          => /\ pc'["down"] # "loop"
             /\ EnteredWith("voice_mail_bot")'
             /\ MediaIn(sent') = {}
       /\ hang_up_reason.reason = "voice_mail_bot" => MediaIn(sent') = {}]_vars

ToolCallHandled(ev) ==
    /\ ev.type = "response.function_call_arguments.done"
    /\ n_down' = n_down + 1

\* C13: a tool call whose name is none of the declared tools changes no call
\* state (termination cause, mark queue, last_ai_item_id, speaker segments,
\* the listener queue), sends nothing to the model or to the human, and ends
\* neither the downlink loop nor the call.
C13_UnknownToolIgnored ==
    [][(ToolCallHandled(last_event') /\ last_event'.name \notin DeclaredTools)
          => /\ UNCHANGED <<hang_up_reason, markVars, speaker_segments,
                            message_queue, marks_in_flight>>
             /\ sent' = <<>>
             /\ UNCHANGED <<pc, cleanup_started, router_cleanup_started,
                            ws_state, closeVars, human_ws>>]_vars

\* An unknown tool call was handled while audio was still queued and the
\* loop is running.
C13_Witness ==
    /\ last_event.type = "response.function_call_arguments.done"
    /\ last_event.name \notin DeclaredTools
    /\ mark_queue # <<>>
    /\ pc["down"] = "loop"
    /\ ~cleanup_started
CloseBodyLeft == close_pc \in {"aborted", "returned"}

\* C14: when the body of close() has been left, by returning or by a failure
\* of the log upload or of the deletion of the log file, the call record has
\* been updated with the termination cause.
C14_RecordUpdatedDespiteFailure ==
    CloseBodyLeft => fx.db_update = 1
ToolOutputsIn(out) ==
    {out[i].output : i \in {j \in DOMAIN out : out[j].type = "conversation.item.create"}}

\* C15: the query_documents tool never raises into the call: when the lookup
\* is over and the model connection is open, a tool result has been posted
\* to the model, also when the lookup failed, and the downlink loop goes on;
\* with no knowledge base configured the result is "No documents found".
C15_LookupNeverRaises ==
    [][(pc["down"] = "query" /\ pc'["down"] # "query" /\ ws_state = "open")
          => /\ pc'["down"] = "loop"
             /\ cleanup_started' = cleanup_started
             /\ ToolOutputsIn(sent') # {}
             /\ knowledge_bases = 0 => ToolOutputsIn(sent') = {"No documents found"}]_vars
\* What json.loads or a field read raises on.
Unhandleable(ev) ==
    \/ ev.type = "malformed"
    \/ ev.type = "response.function_call_arguments.done" /\ ev.arg = InvalidArgs

\* C16: an event that cannot be handled (a malformed frame of the human or
\* of the model side, a tool call whose arguments cannot be read) is skipped:
\* the tool is not executed, so nothing is sent and the termination cause
\* and the mark queue stay as they are, the receiving loop goes on to its
\* next event, and the call is not terminated.
C16_MalformedSkipped ==
    [][(Unhandleable(last_event') /\ (n_down' = n_down + 1 \/ n_up' = n_up + 1))
          => /\ sent' = <<>>
             /\ UNCHANGED <<hang_up_reason, markVars>>
             /\ UNCHANGED <<pc, cleanup_started, router_cleanup_started>>]_vars
(***************************************************************************)
(* Properties of the kickoff, checked under SpecHandler and SpecKickoff.   *)
(***************************************************************************)
KickoffSent == hist.kickoffs' = hist.kickoffs + 1

\* C17: the kickoff response.create is sent at most once in a call, only
\* after session.updated has started the timer and more than
\* start_speaking_buffer_ms has elapsed since then, and never after a
\* speech_started or a model audio delta has been processed.
C17_KickoffOnceAfterWindow ==
    [][/\ hist.kickoffs' <= 1
       /\ hist.kickoffs' \in {hist.kickoffs, hist.kickoffs + 1}
       /\ KickoffSent =>
            /\ start_speaking_buffer_ms # NoneInt
            /\ start_speaking_buffer_start_time # NoneInt
            /\ now' - start_speaking_buffer_start_time > start_speaking_buffer_ms
            /\ ~hist.spoke
            /\ start_speaking_buffer_ms' = NoneInt]_vars

\* A media frame has just carried the kickoff with it.
C17_Witness ==
    /\ hist.kickoffs = 1
    /\ last_event.type = "media"
    /\ \E i \in DOMAIN sent : sent[i] = ResponseCreate
    /\ now - start_speaking_buffer_start_time > KickoffBufferMs
\* The window of the kickoff ends before the clock of the model saturates.
WindowEnds ==
    /\ KickoffArmed
    /\ start_speaking_buffer_start_time + start_speaking_buffer_ms < MaxNow

\* C18: when the kickoff is armed and neither side has started speaking, a
\* kickoff response.create is eventually sent once the window has elapsed,
\* unless one side starts speaking or a later session.updated starts the
\* window anew, whether or not a human audio frame arrives.
C18_KickoffEventuallySent ==
    (WindowEnds /\ ~hist.spoke) ~> (hist.kickoffs > 0 \/ hist.spoke \/ ~WindowEnds)
(***************************************************************************)
(* Properties of the listener stream, checked under SpecListener.          *)
(***************************************************************************)
IsQueueLine(l) == l.src = "queue"
Kinds(seq) == [i \in DOMAIN seq |-> seq[i].type]
Taken == SubSeq(message_queue, 1, listener_taken)
Backlog == Len(message_queue) - listener_taken
CallEndQueued == \E i \in DOMAIN message_queue : message_queue[i].type = "call_end"

\* The lines of the stream are, kind by kind and in order, the messages taken
\* from the head of the queue; call_end is the last line and closes the
\* stream.
ListenerInOrder ==
    /\ Kinds(SelectSeq(listener_out, IsQueueLine)) = Kinds(Taken)
    /\ \A i \in DOMAIN Taken :
            Taken[i].type = "audio" =>
                SelectSeq(listener_out, IsQueueLine)[i].bytes = 2 * Taken[i].bytes
    /\ \A i \in DOMAIN listener_out :
            listener_out[i].type = "call_end" => i = Len(listener_out)
    /\ listener_pc = "closed" <=>
            (listener_out # <<>> /\ listener_out[Len(listener_out)].type = "call_end")
    /\ listener_pc = "closed" => Taken[listener_taken].type = "call_end"
    /\ \A i \in DOMAIN Taken : Taken[i].type = "call_end" => i = listener_taken

\* C19: the listener stream delivers every speaker message and the call_end
\* sentinel pushed to the queue of the call, in the order in which they were
\* produced, without loss or duplication, up to and including the first
\* call_end; after call_end it yields nothing more and closes.
C19_ListenerDeliversInOrder ==
    /\ []ListenerInOrder
    /\ (listener_pc = "get") ~> (Backlog = 0 \/ listener_pc = "closed")
    /\ (listener_pc = "get" /\ CallEndQueued) ~> (listener_pc = "closed")

\* The stream has closed after passing on speaker messages and call_end,
\* and a message pushed after call_end stays in the queue.
C19_Witness ==
    /\ listener_pc = "closed"
    /\ \E i \in DOMAIN listener_out : listener_out[i].type = "speaker"
    /\ listener_out[Len(listener_out)].type = "call_end"
    /\ Backlog > 0
\* C20: the listener queue of a call is bounded: the messages waiting in it
\* never exceed a fixed capacity, however slow the consumer is.
C20_ListenerQueueBounded ==
    Backlog <= ListenerQueueBound
(***************************************************************************)
(* Properties of the end of a call, checked under Spec.                    *)
(***************************************************************************)
\* The uplink learns in this step that the human stream is over: the stream
\* ended, or the browser sent its hangup frame.
HumanStreamCloses == last_event'.type \in {"stream_end", "hangup"}

\* C21: when the human stream closes while no termination cause is set, the
\* cause becomes user_hangup, and a truncate is sent if and only if an
\* assistant item is playing (last_ai_item_id is set).
C21_StreamCloseIsUserHangup ==
    [][(HumanStreamCloses /\ hang_up_reason.reason = None)
          => /\ hang_up_reason'.reason = "user_hangup"
             /\ TruncatesIn(sent') # {} <=> last_ai_item_id # None]_vars
(***************************************************************************)
(* Properties of what follows close(), checked under SpecTools and Spec.   *)
(***************************************************************************)
RouterTasksOver == \A k \in {"up", "down"} : pc[k] \in {"done", "raised"}
ProviderTold == post.dial + post.hangup

\* C22: transfer_call with a label of the transfer list sets the cause to
\* transferred with the resolved number, and any other label leaves the cause
\* as it is; when a telephony call has ended the provider has received
\* exactly one instruction: to dial when the cause is transferred (and then
\* never to hang up), to hang up otherwise.
C22_TransferThenOneInstruction ==
    /\ [][(/\ ToolCallHandled(last_event')
           /\ last_event'.name = "transfer_call"
           /\ last_event'.arg # InvalidArgs)
              => hang_up_reason' = IF last_event'.arg \in TransferLabels
                                   THEN HangUpReason("transferred", TransferNumber)
                                   ELSE hang_up_reason]_vars
    /\ [](transport = "telephony" =>
            /\ ProviderTold <= 1
            /\ post.dial > 0 => post.hangup = 0
            /\ RouterTasksOver =>
                    /\ ProviderTold = 1
                    /\ post.dial = 1 <=> hang_up_reason.reason = "transferred")
\* C23: cancel_hang_up clears the termination cause only when a tool call of
\* the model set it: a cause user_hangup set by the uplink is still
\* user_hangup after the downlink has handled cancel_hang_up.
C23_CancelKeepsUserHangup ==
    [][(/\ ToolCallHandled(last_event')
        /\ last_event'.name = "cancel_hang_up"
        /\ hang_up_reason.reason = "user_hangup")
          => hang_up_reason'.reason = "user_hangup"]_vars
CallOver == \A k \in Tasks : pc[k] \in {"done", "raised"}

\* C24: for an inbound telephony call and for a browser call exactly one
\* completed row is inserted at termination, whose CallDuration is the total
\* of the call in whole seconds; for an outbound telephony call none is.
C24_OneCompletedRow ==
    IF call_type = "outbound" THEN post.rows = <<>>
    ELSE /\ Len(post.rows) <= 1
         /\ CallOver =>
                /\ Len(post.rows) = 1
                /\ post.rows[1] = audio_total_buffer_ms \div 1000

TokenCountOf(name, docs) == (CHOOSE d \in Range(docs) : d.name = name).token_count
RECURSIVE GroupTotal(_, _)
GroupTotal(group, docs) ==
    IF group = <<>> THEN 0
    ELSE TokenCountOf(Head(group), docs) + GroupTotal(Tail(group), docs)
RECURSIVE Concatenated(_)
Concatenated(groups) ==
    IF groups = <<>> THEN <<>> ELSE Head(groups) \o Concatenated(Tail(groups))
TokenCountsOf(docs) == [i \in DOMAIN docs |-> docs[i].token_count]
Grouped == query_pc = "fetched" /\ query_pc' = "grouped"

\* C25: query_documents sorts the documents ascending by token count and
\* packs them greedily, in order, into consecutive groups: no group is
\* empty, a group exceeds 30000 tokens only if it is a single document, a
\* group is closed only when the next document does not fit, the groups
\* concatenated are the sorted list, and 10k, 12k, 15k give [10k,12k], [15k].
C25_GreedyGroups ==
    [][Grouped =>
        /\ Len(documents') = Len(documents) /\ Range(documents') = Range(documents)
        /\ \A i \in 1..(Len(documents') - 1) :
                documents'[i].token_count <= documents'[i + 1].token_count
        /\ Concatenated(document_groups') = [i \in DOMAIN documents' |-> documents'[i].name]
        /\ \A g \in DOMAIN document_groups' :
                LET group == document_groups'[g]
                IN  /\ group # <<>>
                    /\ GroupTotal(group, documents') <= 30000 \/ Len(group) = 1
                    /\ g < Len(document_groups') =>
                            GroupTotal(group, documents')
                              + TokenCountOf(document_groups'[g + 1][1], documents') > 30000
        /\ TokenCountsOf(documents') = <<10000, 12000, 15000>> =>
                /\ Len(document_groups') = 2
                /\ Len(document_groups'[1]) = 2
                /\ Len(document_groups'[2]) = 1]_vars

C25_Witness ==
    /\ query_pc = "grouped"
    /\ TokenCountsOf(documents) = <<10000, 12000, 15000>>
    /\ documents[1].name = 3
    /\ Len(document_groups) = 2

MediaHandled == last_event'.type = "media" /\ n_up' = n_up + 1 /\ ws_state = "open"
BytesPerSecond ==
    CASE audio_format = "pcm16" -> 24000 * 2
      [] audio_format \in {"g711_ulaw", "g711_alaw"} -> 8000 * 1

\* C26: the milliseconds counted for a frame of n bytes are n * 1000 /
\* (sample_rate * bytes_per_sample) rounded down, with 24000 Hz and 2 bytes
\* for pcm16 and 8000 Hz and 1 byte for g711_ulaw and g711_alaw; a frame of
\* a whole number d of milliseconds counts exactly d.
C26_AudioMsIsFloor ==
    [][MediaHandled =>
        LET n == last_event'.bytes
            ms == audio_input_buffer_ms' - audio_input_buffer_ms
        IN  /\ ms * BytesPerSecond <= n * 1000
            /\ n * 1000 < (ms + 1) * BytesPerSecond
            /\ \A d \in 0..n : n * 1000 = d * BytesPerSecond => ms = d]_vars

C26_Witness ==
    /\ audio_format = "g711_alaw"
    /\ last_event = Frame("media", 161)
    /\ Len(audio_input_buffer) = 2
    /\ audio_input_buffer[1].ms = 0 /\ audio_input_buffer[1].audio = 7
    /\ audio_input_buffer[2].ms = 20

PersistenceCompleted == close_pc = "returned"
FrameProcessed == n_up' = n_up + 1 \/ marks_in_flight' = marks_in_flight - 1
EventProcessed == n_down' = n_down + 1

\* C27: the persistence of the termination routine is completed only after
\* the uplink and the downlink have both left their loops: once it is
\* completed neither task is in its loop, and no human frame and no model
\* event is processed.
C27_ClosedAfterBothLoops ==
    /\ [](PersistenceCompleted => \A k \in {"up", "down"} : pc[k] # "loop")
    /\ [][PersistenceCompleted => ~FrameProcessed /\ ~EventProcessed]_vars

\* C28: when the call is over, whichever task ended first and whatever
\* failed on the way, the model connection is closed and the session log
\* file has been deleted.
C28_NoLeakAtTheEnd ==
    CallOver => /\ ws_state = "closed"
                /\ fx.remove = 1

ToolSetCause == hang_up_reason.reason \in {"end_of_call_bot", "transferred"}
UplinkLeaves == pc["up"] = "loop" /\ pc'["up"] # "loop"
MarkAcked == last_event'.type = "mark" /\ marks_in_flight' = marks_in_flight - 1
StreamOrFrameFails ==
    \/ last_event'.type \in {"stream_end", "malformed"}
    \/ last_event'.type = "media" /\ ws_state # "open"

\* C29: on a telephony call with a cause set by hang_up(end_of_call) or by
\* transfer_call, a mark acknowledgment that leaves chunks unacknowledged
\* leaves the uplink in its loop, and the uplink leaves its loop, other than
\* by the end of the stream or a frame that fails, only at a mark
\* acknowledgment that empties the MarkQueue.
C29_ExitOnlyAtLastMark ==
    [][(transport = "telephony" /\ ToolSetCause) =>
          /\ (MarkAcked /\ mark_queue' # <<>>) => pc'["up"] = "loop"
          /\ (UplinkLeaves /\ ~StreamOrFrameFails) =>
                /\ MarkAcked
                /\ Len(mark_queue) = 1 /\ mark_queue' = <<>>]_vars

C29_Witness ==
    /\ transport = "telephony"
    /\ hang_up_reason.reason = "transferred"
    /\ last_event.type = "mark"
    /\ pc["up"] = "closing"
    /\ close_owner = "up"
    /\ mark_queue = <<>>
    /\ Len(deltas) = 2 /\ \A i \in 1..2 : deltas[i].fate = "acked"

\* C30: every truncate names the item of the most recent audio delta
\* forwarded to the human, also when two assistant items follow one another
\* with no barge-in between them.
C30_TruncateNamesLatestItem ==
    [][\A i \in TruncatesIn(sent') :
          /\ deltas # <<>>
          /\ sent'[i].item_id = deltas[Len(deltas)].item_id]_vars

\* C31: a mark frame while the MarkQueue is non-empty removes the head
\* duration and adds it to mark_queue_elapsed_time, and sets
\* inter_mark_start_time to the time of the frame if the queue is still
\* non-empty and clears it otherwise; a mark frame while the MarkQueue is
\* empty changes no state.
C31_MarkPopsHead ==
    [][MarkAcked =>
          IF mark_queue # <<>>
          THEN /\ mark_queue' = Tail(mark_queue)
               /\ mark_queue_elapsed_time' = mark_queue_elapsed_time + Head(mark_queue)
               /\ inter_mark_start_time' = IF Tail(mark_queue) # <<>> THEN now' ELSE NoneInt
               /\ UNCHANGED <<last_ai_item_id, hang_up_reason, stream_sid>>
          ELSE UNCHANGED <<routerVars, aiVars, pc, closeVars, now>>]_vars

C31_Witness ==
    /\ last_event.type = "mark"
    /\ Len(mark_queue) = 1
    /\ mark_queue_elapsed_time = 200
    /\ now > 0 /\ inter_mark_start_time = now
    /\ pc["up"] = "loop"

SegmentUpdates ==
    {"input_audio_buffer.speech_started", "input_audio_buffer.speech_stopped",
     "conversation.item.input_audio_transcription.completed",
     "response.audio_transcript.done"}
SegmentUpdated == n_down' = n_down + 1 /\ last_event'.type \in SegmentUpdates
\* The item_id of the segment the handler of ev passes to the update.
PassedItem(ev) ==
    IF ev.type = "input_audio_buffer.speech_stopped" THEN "" ELSE ev.item_id
PassedTranscript(ev) ==
    IF ev.type \in {"input_audio_buffer.speech_started", "input_audio_buffer.speech_stopped"}
    THEN "" ELSE ev.transcript

\* C32: the update with segment s changes only the transcript of an existing
\* segment that has the same non-empty item_id, the length of the list
\* staying as it is; otherwise, also when the item_id of s is empty, s is
\* appended at the end; no other segment is modified, removed or reordered.
C32_UpdateOrAppend ==
    [][SegmentUpdated =>
        LET item == PassedItem(last_event')
            text == PassedTranscript(last_event')
            n == Len(speaker_segments)
            same == {i \in DOMAIN speaker_segments :
                        item # "" /\ speaker_segments[i].item_id = item}
        IN  IF same # {}
            THEN \E i \in same :
                    speaker_segments' = [speaker_segments EXCEPT ![i].transcript = text]
            ELSE /\ Len(speaker_segments') = n + 1
                 /\ SubSeq(speaker_segments', 1, n) = speaker_segments
                 /\ speaker_segments'[n + 1].item_id = item
                 /\ speaker_segments'[n + 1].transcript = text]_vars

DeltaHandled == n_down' = n_down + 1 /\ last_event'.type = "response.audio.delta"
TranscriptDoneHandled ==
    n_down' = n_down + 1 /\ last_event'.type = "response.audio_transcript.done"
AssistantSegmentsOf(segs, item) ==
    {i \in DOMAIN segs : segs[i].item_id = item /\ segs[i].speaker = "Assistant"}

\* C33: the placeholder opened at a speech_stopped adopts the id of the
\* assistant item at the first audio delta that follows, also when the user
\* has started speaking again in between, so that the item's
\* response.audio_transcript.done sets the transcript of that segment and
\* appends no second Assistant segment.
C33_PlaceholderAdoptsItem ==
    [][/\ (DeltaHandled /\ Placeholders # {}) =>
              \A i \in Placeholders : speaker_segments'[i].item_id = last_event'.item_id
       /\ (TranscriptDoneHandled
              /\ AssistantSegmentsOf(speaker_segments, last_event'.item_id) # {}) =>
              /\ Len(speaker_segments') = Len(speaker_segments)
              /\ \E i \in AssistantSegmentsOf(speaker_segments, last_event'.item_id) :
                    speaker_segments'[i].transcript = last_event'.transcript]_vars

TranscriptSpeaker(ev) ==
    CASE ev.type = "conversation.item.input_audio_transcription.completed" -> "User"
      [] ev.type = "response.audio_transcript.done" -> "Assistant"
      [] OTHER -> None
TranscriptHandled == n_down' = n_down + 1 /\ TranscriptSpeaker(last_event') # None

\* C34: input_audio_transcription.completed sets the transcript only of a
\* User segment that has the item_id of the event, and
\* response.audio_transcript.done only of an Assistant segment: a segment
\* with that item_id and the other speaker keeps its transcript.
C34_TranscriptBySpeaker ==
    [][TranscriptHandled =>
        \A i \in DOMAIN speaker_segments :
            speaker_segments'[i].transcript # speaker_segments[i].transcript
                => /\ speaker_segments[i].item_id = last_event'.item_id
                   /\ speaker_segments[i].speaker = TranscriptSpeaker(last_event')]_vars

FrameMs(nbytes) == (nbytes * 1000) \div BytesPerSecond
FlushedMs(buf, audio_start_ms) ==
    LET AtOrAfter(e) == e.cum >= audio_start_ms
        kept == SelectSeq(buf, AtOrAfter)
    IN  SumSeq([i \in DOMAIN kept |-> kept[i].ms])

\* C35: total_ms never decreases, and it changes only by the audio_ms of an
\* uplink frame received while the user is speaking, by the durations of the
\* pre-speech entries flushed at speech_started, or by the audio_ms of a
\* model audio delta; an uplink frame received while the user is not
\* speaking is sent to the model, leaves total_ms as it is and pushes
\* nothing to the listener queue.
C35_TotalGrowsByAudio ==
    [][/\ audio_total_buffer_ms' >= audio_total_buffer_ms
       /\ audio_total_buffer_ms' # audio_total_buffer_ms =>
            \/ /\ MediaHandled /\ user_speaking
               /\ audio_total_buffer_ms' = audio_total_buffer_ms + FrameMs(last_event'.bytes)
            \/ /\ EventProcessed /\ last_event'.type = "input_audio_buffer.speech_started"
               /\ audio_total_buffer_ms' = audio_total_buffer_ms
                        + FlushedMs(audio_input_buffer, last_event'.audio_start_ms)
            \/ /\ EventProcessed /\ last_event'.type = "response.audio.delta"
               /\ audio_total_buffer_ms' = audio_total_buffer_ms + FrameMs(last_event'.bytes)
       /\ (MediaHandled /\ ~user_speaking) =>
            /\ sent'[1] = AudioAppend(last_event'.bytes)
            /\ audio_total_buffer_ms' = audio_total_buffer_ms
            /\ message_queue' = message_queue]_vars

C35_Witness ==
    /\ last_event.type = "media"
    /\ ~user_speaking
    /\ queue_attached
    /\ audio_total_buffer_ms = 20
    /\ Len(audio_input_buffer) = 1
    /\ Len(speaker_segments) = 2
    /\ sent = <<AudioAppend(last_event.bytes)>>

LogsAwaited == close_pc \in {"gather", "upload", "db", "returned", "aborted"}

\* C36: in the termination routine the model connection is closed before
\* call_end is pushed to the listener queue, call_end is pushed before the
\* pending log writes are awaited, the log is uploaded before the call
\* record is updated, and the log file is deleted only after that update.
C36_CloseInOrder ==
    /\ CallEndQueued => ws_state = "closed"
    /\ (LogsAwaited /\ queue_attached) => CallEndQueued
    /\ fx.db_update > 0 => fx.upload > 0
    /\ fx.remove > 0 => fx.db_update > 0

C36_Witness ==
    /\ close_pc = "returned"
    /\ queue_attached /\ CallEndQueued
    /\ fx.upload = 1 /\ fx.db_update = 1 /\ fx.remove = 1
    /\ ws_state = "closed"

\* C37: every message sent to the model and every model event received
\* before the termination begins is in the uploaded session log: close()
\* reads the file only when the log write of each of them is done.
C37_UploadedLogComplete ==
    /\ log_pc \in {"read", "uploaded"} => Pending = {}
    /\ log_pc = "uploaded" => \A i \in DOMAIN log_writes : i \in Range(uploaded_log)

\* C38: a speaker message on the listener queue keeps the content it had
\* when it was pushed: no later transcript update, item-id adoption or
\* appended segment changes what a message still in the queue holds.
Queued == {i \in DOMAIN message_queue : i > listener_taken}
ContentOf(m, segs) == SubSeq(segs, 1, m.count)
C38_QueuedSpeakerMessageIsACopy ==
    [][\A i \in Queued :
          message_queue[i].type = "speaker"
              => ContentOf(message_queue[i], speaker_segments')
                    = ContentOf(message_queue[i], speaker_segments)]_vars

\* C39: the end reason of the call record is written only when none is
\* stored: once POST /hang-up has stored listener_hangup, the update of
\* close() stores the log path and leaves listener_hangup in place, however
\* the request and the update of close() interleave.
C39_EndReasonWrittenOnce ==
    [][/\ phone_call.end_reason # None => phone_call'.end_reason = phone_call.end_reason
       /\ (phone_call.end_reason = "listener_hangup" /\ update_pc'.at = "done"
            /\ update_pc.at # "done")
            => phone_call' = [end_reason |-> "listener_hangup", call_data |-> LogPath]]_vars

\* C40: the endpoint echoes the marks in the order they were sent, so while
\* more marks are outstanding than the MarkQueue has entries the next mark
\* is that of a chunk sent before the queue was cleared.  Such a mark removes
\* no entry of the queue and adds nothing to mark_queue_elapsed_time.
StaleMarkNext == marks_in_flight > Len(mark_queue)
C40_StaleMarkPopsNothing ==
    [][(MarkAcked /\ StaleMarkNext)
            => /\ mark_queue' = mark_queue
               /\ mark_queue_elapsed_time' = mark_queue_elapsed_time]_vars
====
